---------------------------- MODULE Spec2Model ----------------------------
(***************************************************************************)
(* Verification model of the aRPC capture examples and the sidecar         *)
(* injector:                                                               *)
(*   src/examples/bpf/intercept_sendmsg.py  (socket-send probe)            *)
(*   src/examples/bpf/intercept_tc.py       (link classifier, egress)      *)
(*   src/examples/bpf/tc/tc.py              (link classifier, pyroute2)    *)
(*   src/cmd/proxy/injector/symphony-injector.py                           *)
(*                                                                         *)
(* The specifications share the variables below:                           *)
(*   SpecCapture  the kernel capture programs run on several CPUs          *)
(*   SpecLife, SpecLifeFair   the attach / poll / teardown control flow    *)
(*   SpecConsume  the user-space callbacks applied to submitted records    *)
(*   SpecDecA, SpecDecB, SpecDec   the frame decoders on bounded buffers   *)
(*   SpecInject   the injector applied to bounded document lists           *)
(***************************************************************************)
EXTENDS Integers, Sequences, FiniteSets, TLC

VARIABLES
    \* ---- kernel capture (SpecCapture)
    hook,          \* which capture program is loaded: "kprobe" or "tc"
    cpu,           \* per CPU: the running invocation of the capture program
    packet_count,  \* BPF_HASH(packet_count): key -> map element holding the value
    elem,          \* storage of the map's elements: element -> u64 value
    events,        \* BPF_PERF_OUTPUT(events): records submitted, oldest first
    sent,          \* candidate packets handed to the hook so far
    overlapped,    \* history: two invocations were in the counter update at once
    \* ---- user-space control flow (SpecLife)
    prog,          \* which script runs
    pc,            \* its position
    idx,           \* tc.py main: interface index, 0 is None
    hooks,         \* hooks currently installed in the kernel
    oplog,         \* hook install / removal operations issued, in order
    polls,         \* completed calls of perf_buffer_poll
    exc,           \* the exception propagating, "none" when there is none
    \* ---- frame decoders (SpecDecA, SpecDecB)
    frame,         \* the fields the sender encoded, and the cut position
    data,          \* the buffer handed to the decoder
    result,        \* what the decoders returned; "none" before the call
    \* ---- consumer loop (SpecConsume)
    stdout,        \* what the event handler reported, one entry per handled record
    \* ---- sidecar injector (SpecInject)
    documents,     \* the list process_yaml works on, changed in place
    loaded,        \* the documents as yaml.safe_load_all returned them
    next_doc       \* process_yaml: position of the for loop, 0 before it starts

capVars  == <<hook, cpu, packet_count, elem, events, sent, overlapped>>
lifeVars == <<prog, pc, idx, hooks, oplog, polls, exc>>
decVars  == <<frame, data, result, stdout>>
injVars  == <<documents, loaded, next_doc>>
vars     == <<hook, cpu, packet_count, elem, events, sent, overlapped,
              prog, pc, idx, hooks, oplog, polls, exc, frame, data, result,
              stdout, documents, loaded, next_doc>>

-----------------------------------------------------------------------------
(* Program constants *)

MAX_DATA_LEN == 256
UDP_PORT == 9000
ETH_P_IP == 2048
IPPROTO_UDP == 17
SIZEOF_ETH == 14
SIZEOF_IPHDR == 20
SIZEOF_UDPHDR == 8
TASK_COMM_LEN == 16
TC_PAYLOAD_LEN == 64

(* Bounds of the model *)

MaxPackets == 3
NElem == 2
MaxPolls == 2
MaxService == 2
MaxMethod == 1
MaxHeader == 2
MaxPayload == 2
MaxParams == 3
MaxRecords == 2

CPUS == {"cpu0", "cpu1"}
Elems == 1 .. NElem
NULL == 0

-----------------------------------------------------------------------------
(* Helpers *)

Min(a, b) == IF a < b THEN a ELSE b

\* htons / ntohs / bpf_ntohs on a little-endian host: swap the two bytes
Swap16(x) == (x % 256) * 256 + ((x \div 256) % 256)
htons(x) == Swap16(x)
ntohs(x) == Swap16(x)

\* The bytes a candidate packet carries as payload: byte i of an n byte payload.
PayloadByte(i) == (i * 7 + 1) % 256
PayloadBytes(n) == [i \in 1 .. n |-> PayloadByte(i)]

\* A char[MAX_DATA_LEN] array, zeroed, with the first n bytes of src copied in
CopyInto(src, n) ==
    [i \in 1 .. MAX_DATA_LEN |-> IF i <= n THEN src[i] ELSE 0]

ZeroData == [i \in 1 .. MAX_DATA_LEN |-> 0]

-----------------------------------------------------------------------------
(* Candidate events of the socket-send probe: the arguments of udp_sendmsg.  *)
(*   has_name  msg->msg_name != NULL                                        *)
(*   name_ok   user memory of msg_name is readable                          *)
(*   sin_port  sockaddr_in.sin_port, network byte order                     *)
(*   skc_num   local port of the socket                                     *)
(*   iov_len   msg->msg_iter.iov->iov_len                                   *)
(*   base_ok   user memory at iov_base is readable                          *)
Msgs ==
    { m \in [has_name : BOOLEAN, name_ok : BOOLEAN,
             sin_port : {htons(UDP_PORT), htons(UDP_PORT + 1)},
             skc_num : {5000}, pid : {77},
             iov_len : {0, 3, MAX_DATA_LEN + 44}, base_ok : BOOLEAN] :
        \/ /\ m.has_name /\ m.name_ok /\ m.sin_port = htons(UDP_PORT)
           /\ (m.iov_len = 0 => m.base_ok)
        \/ /\ m.iov_len = 3 /\ m.base_ok
           /\ \/ ~m.has_name /\ m.name_ok /\ m.sin_port = htons(UDP_PORT)
              \/ m.has_name /\ ~m.name_ok /\ m.sin_port = htons(UDP_PORT)
              \/ m.has_name /\ m.name_ok /\ m.sin_port # htons(UDP_PORT) }

(* Candidate frames of the link classifier: a struct __sk_buff.             *)
(*   len       skb->len, bytes in the frame                                 *)
(*   proto     ethernet_t.proto as loaded (network byte order)              *)
(*   protocol  iphdr.protocol                                               *)
(*   source, dest, ulen   udphdr fields as loaded (network byte order)      *)
(* The header fields are the values at the fixed offsets 12, 23, 34, 36, 38 *)
(* that handle_egress reads.  The set holds frames too short for each       *)
(* header, an IPv6 frame (34525), a TCP segment (6), another port, an      *)
(* empty datagram, and datagrams whose payload is or is not all there.     *)
SkbOf(len, proto, protocol, dport, ulen) ==
    [len |-> len, proto |-> htons(proto), protocol |-> protocol,
     source |-> htons(5000), dest |-> htons(dport), ulen |-> htons(ulen)]

\* u32 hdr_len = sizeof(eth) + sizeof(ip) + sizeof(udp)
HDR_LEN == SIZEOF_ETH + SIZEOF_IPHDR + SIZEOF_UDPHDR

Skbs ==
    { SkbOf(10, ETH_P_IP, IPPROTO_UDP, UDP_PORT, 11),
      SkbOf(20, ETH_P_IP, IPPROTO_UDP, UDP_PORT, 11),
      SkbOf(40, ETH_P_IP, IPPROTO_UDP, UDP_PORT, 11),
      SkbOf(45, 34525, IPPROTO_UDP, UDP_PORT, 11),
      SkbOf(45, ETH_P_IP, 6, UDP_PORT, 11),
      SkbOf(45, ETH_P_IP, IPPROTO_UDP, UDP_PORT + 1, 11),
      SkbOf(HDR_LEN, ETH_P_IP, IPPROTO_UDP, UDP_PORT, SIZEOF_UDPHDR),
      SkbOf(HDR_LEN + 3, ETH_P_IP, IPPROTO_UDP, UDP_PORT, SIZEOF_UDPHDR + 3),
      SkbOf(HDR_LEN + 1, ETH_P_IP, IPPROTO_UDP, UDP_PORT, SIZEOF_UDPHDR + 3),
      SkbOf(HDR_LEN + 300, ETH_P_IP, IPPROTO_UDP, UDP_PORT, SIZEOF_UDPHDR + 300),
      SkbOf(HDR_LEN + 100, ETH_P_IP, IPPROTO_UDP, UDP_PORT, SIZEOF_UDPHDR + 300) }

-----------------------------------------------------------------------------
(* The kernel capture programs.  One invocation runs on each CPU; the steps *)
(* that touch the shared map and the event channel interleave.              *)

NoPkt == [none |-> TRUE]
NoRec == [none |-> TRUE]

\* pc        position of the invocation
\* pkt       the candidate packet it was called with
\* rec       struct data_t on the program's stack
\* count     u64 *count, the result of packet_count.lookup (NULL: not found)
\* tmp       the value loaded by (*count)++ before it is stored back
\* nsub      perf_submit calls made by this invocation
\* nupd      stores to packet_count made by this invocation
\* rd_fail   some bpf_probe_read_user / bpf_skb_load_bytes call returned an error
\* ret       the value returned to the kernel
IdleCpu ==
    [pc |-> "idle", pkt |-> NoPkt, rec |-> NoRec, count |-> NULL, tmp |-> 0,
     nsub |-> 0, nupd |-> 0, rd_fail |-> FALSE, ret |-> 0]

EmptyMap == [k \in {} |-> NULL]

\* the positions between the lookup of packet_count and the store to it
CounterSection == {"lookup", "load", "store", "update"}

\* the invocation on c goes to position at while another is in its counter
\* update
Overlaps(c, at) ==
    at \in CounterSection /\ \E d \in CPUS \ {c} : cpu[d].pc \in CounterSection

\* ---- intercept_sendmsg.py: trace_udp_sendmsg, up to the payload read

\* lines 29-39: dport stays 0 without msg_name; a failed read leaves sa zeroed
KprobeDport(m) ==
    IF m.has_name
    THEN ntohs(IF m.name_ok THEN m.sin_port ELSE 0)
    ELSE 0

\* line 41 with the comparison made before msg_name is read (dport still 0 is
\* taken for "no filter")
KprobeFilterPass_ZeroPasses(m) == KprobeDport(m) = UDP_PORT \/ KprobeDport(m) = 0

\* line 41
KprobeFilterPass(m) == KprobeDport(m) = UDP_PORT

\* lines 52-55
KprobeDataLen(m) ==
    IF m.iov_len > MAX_DATA_LEN THEN MAX_DATA_LEN ELSE m.iov_len

\* line 56: data.data_len
KprobeRecLen(m) == KprobeDataLen(m)

\* lines 45-58: struct data_t data once the payload read has succeeded
KprobeRecord(m) ==
    [pid |-> m.pid, dst_port |-> KprobeDport(m), src_port |-> m.skc_num,
     data_len |-> KprobeRecLen(m), task |-> "client",
     data |-> CopyInto(PayloadBytes(m.iov_len), KprobeDataLen(m))]

\* line 58: bpf_probe_read_user(&data.data, data_len, iov->iov_base) != 0
KprobePayloadReadFails(m) == ~m.base_ok

trace_udp_sendmsg(c, m) ==
    /\ hook = "kprobe"
    /\ cpu[c].pc = "idle"
    /\ sent < MaxPackets
    /\ sent' = sent + 1
    /\ LET nameFail == m.has_name /\ ~m.name_ok IN
       IF ~KprobeFilterPass(m)
       THEN cpu' = [cpu EXCEPT ![c] =
                [IdleCpu EXCEPT !.pc = "done", !.pkt = m, !.rd_fail = nameFail,
                                !.ret = 0]]
       ELSE IF KprobePayloadReadFails(m)
       THEN cpu' = [cpu EXCEPT ![c] =
                [IdleCpu EXCEPT !.pc = "done", !.pkt = m, !.rd_fail = TRUE,
                                !.ret = 0]]
       ELSE cpu' = [cpu EXCEPT ![c] =
                [IdleCpu EXCEPT !.pc = "lookup", !.pkt = m,
                                !.rec = KprobeRecord(m), !.rd_fail = nameFail]]
    /\ overlapped' = (overlapped \/ Overlaps(c, cpu'[c].pc))
    /\ UNCHANGED <<hook, packet_count, elem, events>>
    /\ UNCHANGED <<lifeVars, decVars, injVars>>

\* ---- intercept_tc.py: handle_egress, up to the payload read

\* bpf_skb_load_bytes(skb, offset, to, len) fails when offset + len > skb->len
SkbLoadFails(skb, offset, len) == offset + len > skb.len

\* lines 38-41: a failed load leaves the zero-initialised struct
TcEthProto(skb) ==
    IF SkbLoadFails(skb, 0, SIZEOF_ETH) THEN 0 ELSE skb.proto
\* lines 43-46
TcIpProtocol(skb) ==
    IF SkbLoadFails(skb, SIZEOF_ETH, SIZEOF_IPHDR) THEN 0 ELSE skb.protocol
\* lines 48-50
TcUdp(skb) ==
    IF SkbLoadFails(skb, SIZEOF_ETH + SIZEOF_IPHDR, SIZEOF_UDPHDR)
    THEN [source |-> 0, dest |-> 0, len |-> 0]
    ELSE [source |-> skb.source, dest |-> skb.dest, len |-> skb.ulen]

\* lines 41, 46, 51: the three early returns
TcFilterPass(skb) ==
    /\ TcEthProto(skb) = htons(ETH_P_IP)
    /\ TcIpProtocol(skb) = IPPROTO_UDP
    /\ TcUdp(skb).dest = htons(UDP_PORT)

\* the loads made before the filter decision, and whether one of them failed
TcHeaderReadFails(skb) ==
    \/ SkbLoadFails(skb, 0, SIZEOF_ETH)
    \/ /\ TcEthProto(skb) = htons(ETH_P_IP)
       /\ \/ SkbLoadFails(skb, SIZEOF_ETH, SIZEOF_IPHDR)
          \/ /\ TcIpProtocol(skb) = IPPROTO_UDP
             /\ SkbLoadFails(skb, SIZEOF_ETH + SIZEOF_IPHDR, SIZEOF_UDPHDR)

\* line 54
TcUdpLen(skb) == ntohs(TcUdp(skb).len)

\* line 56 written with >=
TcHasPayload_Geq(skb) == TcUdpLen(skb) >= SIZEOF_UDPHDR

\* line 56
TcHasPayload(skb) == TcUdpLen(skb) > SIZEOF_UDPHDR

\* lines 57-59
TcPayloadLen(skb) ==
    LET n == TcUdpLen(skb) - SIZEOF_UDPHDR
    IN  IF n > MAX_DATA_LEN THEN MAX_DATA_LEN ELSE n

\* line 62: the return value of this load is not looked at
TcPayloadReadFails(skb) == SkbLoadFails(skb, HDR_LEN, TcPayloadLen(skb))

\* line 63: pkt.data_len
TcRecLen(skb) == TcPayloadLen(skb)

\* lines 61-65: struct data_t pkt
TcRecord(skb) ==
    [dst_port |-> ntohs(TcUdp(skb).dest), src_port |-> ntohs(TcUdp(skb).source),
     data_len |-> TcRecLen(skb),
     data |-> IF TcPayloadReadFails(skb)
              THEN ZeroData
              ELSE CopyInto(PayloadBytes(skb.len - HDR_LEN), TcPayloadLen(skb))]

handle_egress(c, skb) ==
    /\ hook = "tc"
    /\ cpu[c].pc = "idle"
    /\ sent < MaxPackets
    /\ sent' = sent + 1
    /\ IF ~TcFilterPass(skb)
       THEN cpu' = [cpu EXCEPT ![c] =
                [IdleCpu EXCEPT !.pc = "done", !.pkt = skb,
                                !.rd_fail = TcHeaderReadFails(skb), !.ret = 1]]
       ELSE IF ~TcHasPayload(skb)
       THEN cpu' = [cpu EXCEPT ![c] =
                [IdleCpu EXCEPT !.pc = "done", !.pkt = skb, !.ret = 1]]
       ELSE cpu' = [cpu EXCEPT ![c] =
                [IdleCpu EXCEPT !.pc = "lookup", !.pkt = skb,
                                !.rec = TcRecord(skb),
                                !.rd_fail = TcPayloadReadFails(skb)]]
    /\ overlapped' = (overlapped \/ Overlaps(c, cpu'[c].pc))
    /\ UNCHANGED <<hook, packet_count, elem, events>>
    /\ UNCHANGED <<lifeVars, decVars, injVars>>

\* ---- both programs: the packet_count update and the submission
\*      (intercept_sendmsg.py lines 62-71, intercept_tc.py lines 67-77)

\* packet_count[0] as a reader sees it; 0 stands for "no such key"
CountValue == IF 0 \in DOMAIN packet_count THEN elem[packet_count[0]] ELSE 0

\* u64 *count = packet_count.lookup(&key)
LookupResult == IF 0 \in DOMAIN packet_count THEN packet_count[0] ELSE NULL

Lookup(c) ==
    /\ cpu[c].pc = "lookup"
    /\ cpu' = [cpu EXCEPT ![c].count = LookupResult,
                          ![c].pc = IF LookupResult # NULL THEN "load" ELSE "update"]
    /\ UNCHANGED <<hook, packet_count, elem, events, sent, overlapped>>
    /\ UNCHANGED <<lifeVars, decVars, injVars>>

\* (*count)++ is a load, an add and a store through the pointer; the u64
\* cannot wrap within MaxPackets updates
IncrLoad(c) ==
    /\ cpu[c].pc = "load"
    /\ cpu' = [cpu EXCEPT ![c].tmp = elem[cpu[c].count], ![c].pc = "store"]
    /\ UNCHANGED <<hook, packet_count, elem, events, sent, overlapped>>
    /\ UNCHANGED <<lifeVars, decVars, injVars>>

\* the store of a value one too high
IncrStore_AddsTwo(c) ==
    /\ cpu[c].pc = "store"
    /\ elem' = [elem EXCEPT ![cpu[c].count] = cpu[c].tmp + 2]
    /\ cpu' = [cpu EXCEPT ![c].nupd = @ + 1, ![c].pc = "submit"]
    /\ UNCHANGED <<hook, packet_count, events, sent, overlapped>>
    /\ UNCHANGED <<lifeVars, decVars, injVars>>

IncrStore(c) ==
    /\ cpu[c].pc = "store"
    /\ elem' = [elem EXCEPT ![cpu[c].count] = cpu[c].tmp + 1]
    /\ cpu' = [cpu EXCEPT ![c].nupd = @ + 1, ![c].pc = "submit"]
    /\ UNCHANGED <<hook, packet_count, events, sent, overlapped>>
    /\ UNCHANGED <<lifeVars, decVars, injVars>>

\* the else branch without the update: the record goes out while the key is
\* still missing
Update_SkipsStore(c) ==
    /\ cpu[c].pc = "update"
    /\ cpu' = [cpu EXCEPT ![c].pc = "submit"]
    /\ UNCHANGED <<hook, packet_count, elem, events, sent, overlapped>>
    /\ UNCHANGED <<lifeVars, decVars, injVars>>

\* packet_count.update(&key, &init) with init = 1: the map takes a free element,
\* writes the value into it and makes it the element of the key; an element
\* it replaces goes back to the free list while other CPUs may still hold a
\* pointer into it.
Update(c) ==
    /\ cpu[c].pc = "update"
    /\ \E e \in Elems \ {LookupResult} :
          /\ elem' = [elem EXCEPT ![e] = 1]
          /\ packet_count' = [k \in {0} |-> e]
    /\ cpu' = [cpu EXCEPT ![c].nupd = @ + 1, ![c].pc = "submit"]
    /\ UNCHANGED <<hook, events, sent, overlapped>>
    /\ UNCHANGED <<lifeVars, decVars, injVars>>

\* the submission followed by a verdict of its own (2: drop the packet)
Submit_OwnVerdict(c) ==
    /\ cpu[c].pc = "submit"
    /\ events' = Append(events, cpu[c].rec)
    /\ cpu' = [cpu EXCEPT ![c].nsub = @ + 1, ![c].pc = "done", ![c].ret = 2]
    /\ UNCHANGED <<hook, packet_count, elem, sent, overlapped>>
    /\ UNCHANGED <<lifeVars, decVars, injVars>>

\* events.perf_submit(ctx, &data, sizeof(data)); return 0
\* events.perf_submit_skb(skb, skb->len, &pkt, sizeof(pkt)); return 1
Submit(c) ==
    /\ cpu[c].pc = "submit"
    /\ events' = Append(events, cpu[c].rec)
    /\ cpu' = [cpu EXCEPT ![c].nsub = @ + 1, ![c].pc = "done",
                          ![c].ret = IF hook = "tc" THEN 1 ELSE 0]
    /\ UNCHANGED <<hook, packet_count, elem, sent, overlapped>>
    /\ UNCHANGED <<lifeVars, decVars, injVars>>

\* the invocation has returned; the CPU is free for the next packet
Return(c) ==
    /\ cpu[c].pc = "done"
    /\ cpu' = [cpu EXCEPT ![c] = IdleCpu]
    /\ UNCHANGED <<hook, packet_count, elem, events, sent, overlapped>>
    /\ UNCHANGED <<lifeVars, decVars, injVars>>

-----------------------------------------------------------------------------
(* Values of the variables a specification does not use *)

IdleCapture ==
    /\ hook = "none"
    /\ cpu = [c \in CPUS |-> IdleCpu]
    /\ packet_count = EmptyMap
    /\ elem = [e \in Elems |-> 0]
    /\ events = << >>
    /\ sent = 0
    /\ overlapped = FALSE

IdleLife ==
    /\ prog = "none"
    /\ pc = "none"
    /\ idx = 0
    /\ hooks = {}
    /\ oplog = << >>
    /\ polls = 0
    /\ exc = "none"

IdleDec ==
    /\ frame = [none |-> TRUE]
    /\ data = << >>
    /\ result = [none |-> TRUE]
    /\ stdout = << >>

IdleInject ==
    /\ documents = << >>
    /\ loaded = << >>
    /\ next_doc = 0

-----------------------------------------------------------------------------
(* SpecCapture: one attachment of a capture program, fed candidate packets *)

InitCapture ==
    /\ hook \in {"kprobe", "tc"}
    /\ cpu = [c \in CPUS |-> IdleCpu]
    /\ packet_count = EmptyMap
    /\ elem = [e \in Elems |-> 0]
    /\ events = << >>
    /\ sent = 0
    /\ overlapped = FALSE
    /\ IdleLife
    /\ IdleDec
    /\ IdleInject

NextCapture ==
    \E c \in CPUS :
        \/ \E m \in Msgs : trace_udp_sendmsg(c, m)
        \/ \E skb \in Skbs : handle_egress(c, skb)
        \/ Lookup(c)
        \/ IncrLoad(c)
        \/ IncrStore(c)
        \/ Update(c)
        \/ Submit(c)
        \/ Return(c)

SpecCapture == InitCapture /\ [][NextCapture]_vars

-----------------------------------------------------------------------------
(* What a candidate packet is, independently of the capture program *)

\* the value of a 16 bit field sent in network byte order
Be16(x) == (x % 256) * 256 + ((x \div 256) % 256)

\* the packet is addressed to the filter's port
Matches(h, p) ==
    IF h = "kprobe"
    THEN p.has_name /\ Be16(p.sin_port) = UDP_PORT
    ELSE /\ p.len >= HDR_LEN
         /\ Be16(p.proto) = ETH_P_IP
         /\ p.protocol = IPPROTO_UDP
         /\ Be16(p.dest) = UDP_PORT

\* the payload length of the packet before any truncation
TruePayloadLen(h, p) ==
    IF h = "kprobe" THEN p.iov_len ELSE Be16(p.ulen) - SIZEOF_UDPHDR

Busy(c) == cpu[c].pc # "idle"

-----------------------------------------------------------------------------
(* Claims about the kernel capture programs, checked under SpecCapture *)

\* C1: no step of an invocation that was handed a packet not addressed to
\* port P (a send without destination address counts as port 0) submits a
\* record or changes packet_count, and such an invocation returns having
\* submitted nothing and stored nothing.
C1_NonMatchingLeavesNoTrace ==
    [][\A c \in CPUS :
          (cpu'[c] # cpu[c] /\ cpu'[c].pc # "idle"
              /\ ~Matches(hook, cpu'[c].pkt))
          => /\ events' = events
             /\ packet_count' = packet_count
             /\ elem' = elem
             /\ cpu'[c].nsub = 0
             /\ cpu'[c].nupd = 0]_vars

\* C1 witness: a non-matching packet was handled after a record had been
\* submitted and the counter had been set.
C1_Witness ==
    \E c \in CPUS :
        /\ cpu[c].pc = "done"
        /\ ~Matches(hook, cpu[c].pkt)
        /\ Len(events) >= 1
        /\ CountValue >= 1

\* C6: the value of packet_count[0] never decreases from one instant to the
\* next while the program stays attached.
C6_CounterNeverDecreases == [][CountValue' >= CountValue]_vars

\* C7: an invocation in which a bounded read failed submits no record and
\* does not store to packet_count.
C7_FailedReadDropsEvent ==
    \A c \in CPUS :
        (Busy(c) /\ cpu[c].rd_fail) => (cpu[c].nsub = 0 /\ cpu[c].nupd = 0)

\* C8: the record submitted for a payload longer than MAX_DATA_LEN holds the
\* first MAX_DATA_LEN payload bytes and its data_len is the original length.
C8_LengthIsOriginal ==
    \A c \in CPUS :
        (cpu[c].pc = "done" /\ cpu[c].nsub = 1 /\ ~cpu[c].rd_fail
            /\ TruePayloadLen(hook, cpu[c].pkt) > MAX_DATA_LEN)
        => /\ \A i \in 1 .. MAX_DATA_LEN : cpu[c].rec.data[i] = PayloadByte(i)
           /\ cpu[c].rec.data_len = TruePayloadLen(hook, cpu[c].pkt)

C23_VerdictIsTheSameOnEveryPath ==
    /\ [](\A c \in CPUS : \A d \in CPUS :
             (cpu[c].pc = "done" /\ cpu[d].pc = "done") => cpu[c].ret = cpu[d].ret)
    /\ [][\A c \in CPUS :
             (cpu[c].pc # "idle" /\ cpu'[c].pc # "idle") => cpu'[c].pkt = cpu[c].pkt]_vars

\* C23 witness: the socket-send probe has returned on one CPU after
\* submitting a record and on the other after a failed read of a matching
\* send, and a non-matching send had been handled before.
C23_Witness ==
    /\ hook = "kprobe"
    /\ sent = 3
    /\ \E c \in CPUS : cpu[c].pc = "done" /\ cpu[c].nsub = 1
    /\ \E d \in CPUS :
          /\ cpu[d].pc = "done" /\ Matches(hook, cpu[d].pkt)
          /\ cpu[d].rd_fail /\ cpu[d].nsub = 0

\* C26: an invocation submits its record only after its own store to
\* packet_count, so from the moment a record is in the event channel the key
\* 0 exists and its value is at least 1, however the invocations on the
\* CPUs interleave: the consumer's read of packet_count[0] finds the key.
C26_CounterIsSetBeforeRecordIsSeen ==
    /\ [][\A c \in CPUS : cpu'[c].nsub > cpu[c].nsub => cpu[c].nupd = 1]_vars
    /\ [](events # << >> => (0 \in DOMAIN packet_count /\ CountValue >= 1))

\* C26 witness: two invocations that both found the key missing have each
\* initialised it and submitted their record.
C26_Witness ==
    /\ Len(events) = 2
    /\ \A c \in CPUS :
          /\ cpu[c].pc = "done" /\ cpu[c].count = NULL
          /\ cpu[c].nupd = 1 /\ cpu[c].nsub = 1
    /\ CountValue = 1

\* the matched events whose counter update is done: those submitted, and
\* those between their store and their submission
CounterUpdatesDone ==
    Len(events) + Cardinality({c \in CPUS : cpu[c].pc = "submit"})

\* C27: packet_count[0] never exceeds the number of matched events that have
\* made their counter update, however the invocations interleave (updates
\* can be lost, none is counted twice); and as long as no two invocations
\* have been in their counter update at the same time, it equals that number.
C27_CounterNeverOverCounts ==
    /\ CountValue <= CounterUpdatesDone
    /\ ~overlapped => CountValue = CounterUpdatesDone

\* C27 witness: two invocations ran their counter updates at the same time
\* and one update was lost: two records are out and the counter says 1.
C27_Witness ==
    /\ overlapped
    /\ Len(events) = 2
    /\ \A c \in CPUS : cpu[c].pc = "done"
    /\ CountValue = 1

-----------------------------------------------------------------------------
(* SpecLife: the user-space control flow of the three scripts: load, install *)
(* the hooks, poll, and tear down.  A KeyboardInterrupt can be raised before *)
(* any statement; the calls into bcc, pyroute2 and tc can fail.              *)

\* the hooks a queueing discipline carries: deleting it deletes its filters
FiltersOf(q) ==
    CASE q = "ingress" -> {"ingress_filter"}
      [] q = "htb"     -> {"egress_filter"}
      [] q = "clsact"  -> {"clsact_egress_filter"}
      [] OTHER         -> {}

ParentOf(f) ==
    CASE f = "ingress_filter"       -> "ingress"
      [] f = "egress_filter"        -> "htb"
      [] f = "clsact_egress_filter" -> "clsact"

\* the outcomes of "tc qdisc del" / ipr.tc("del", ...): the discipline and
\* its filters go, or the call fails and nothing changes; it always fails
\* when the discipline is absent
DelOutcomes(q) ==
    IF q \in hooks
    THEN {[ok |-> TRUE, hooks |-> hooks \ ({q} \cup FiltersOf(q))],
          [ok |-> FALSE, hooks |-> hooks]}
    ELSE {[ok |-> FALSE, hooks |-> hooks]}

\* the outcomes of "tc qdisc add" / ipr.tc("add", ...)
AddOutcomes(q) ==
    IF q \in hooks
    THEN {[ok |-> FALSE, hooks |-> hooks]}
    ELSE {[ok |-> TRUE, hooks |-> hooks \cup {q}],
          [ok |-> FALSE, hooks |-> hooks]}

\* the outcomes of "tc filter add" / ipr.tc("add-filter", ...)
AddFilterOutcomes(f) ==
    IF ParentOf(f) \in hooks /\ f \notin hooks
    THEN {[ok |-> TRUE, hooks |-> hooks \cup {f}],
          [ok |-> FALSE, hooks |-> hooks]}
    ELSE {[ok |-> FALSE, hooks |-> hooks]}

Logged(op, ok) == Append(oplog, [op |-> op, ok |-> ok])

\* ---- tc/tc.py

\* the statements of main's try block outside the inner try/except pairs
TcTryBody ==
    {"load_func", "link_lookup", "pre_del_ingress", "pre_del_htb",
     "add_ingress", "add_filter_ingress", "add_htb", "add_filter_egress",
     "open", "poll"}

\* line 13-14: b = BPF(src_file="tc.c"); ipr = IPRoute(), before main runs
Tc_module(ok) ==
    /\ prog = "tc" /\ pc = "module"
    /\ IF ok THEN pc' = "load_func" /\ exc' = exc
             ELSE pc' = "exit" /\ exc' = "Exception"
    /\ UNCHANGED <<prog, idx, hooks, oplog, polls>>
    /\ UNCHANGED <<capVars, decVars, injVars>>

\* an exception other than KeyboardInterrupt leaves the try block: no except
\* clause takes it, the finally block runs with the exception pending
TcRaised == pc' = "finally" /\ exc' = "Exception"

\* lines 150-151
Tc_load_func(ok) ==
    /\ prog = "tc" /\ pc = "load_func"
    /\ IF ok THEN pc' = "link_lookup" /\ exc' = exc ELSE TcRaised
    /\ UNCHANGED <<prog, idx, hooks, oplog, polls>>
    /\ UNCHANGED <<capVars, decVars, injVars>>

\* line 153: link_lookup returns [] for an unknown interface, and [0] raises
Tc_link_lookup(found) ==
    /\ prog = "tc" /\ pc = "link_lookup"
    /\ IF found
       THEN idx' = 1 /\ pc' = "pre_del_ingress" /\ exc' = exc
       ELSE idx' = idx /\ TcRaised
    /\ UNCHANGED <<prog, hooks, oplog, polls>>
    /\ UNCHANGED <<capVars, decVars, injVars>>

\* the removal without the except clause: a failed removal raises
TcDel_Raises(at, q, next) ==
    /\ prog = "tc" /\ pc = at
    /\ \E o \in DelOutcomes(q) :
          /\ hooks' = o.hooks
          /\ oplog' = Logged(at, o.ok)
          /\ IF o.ok THEN pc' = next /\ exc' = exc ELSE TcRaised
    /\ UNCHANGED <<prog, idx, polls>>
    /\ UNCHANGED <<capVars, decVars, injVars>>

\* a removal inside try: ... except: pass; whatever it raises is dropped
TcDel(at, q, next) ==
    /\ prog = "tc" /\ pc = at
    /\ \E o \in DelOutcomes(q) :
          /\ hooks' = o.hooks
          /\ oplog' = Logged(at, o.ok)
    /\ pc' = next
    /\ UNCHANGED <<prog, idx, polls, exc>>
    /\ UNCHANGED <<capVars, decVars, injVars>>

\* lines 155-156
Tc_pre_del_ingress == TcDel("pre_del_ingress", "ingress", "pre_del_htb")
\* lines 157-158
Tc_pre_del_htb == TcDel("pre_del_htb", "htb", "add_ingress")

\* an install step whose failure is not noticed
TcInstall_IgnoresFailure(at, outcomes, next) ==
    /\ prog = "tc" /\ pc = at
    /\ \E o \in outcomes :
          /\ hooks' = o.hooks
          /\ oplog' = Logged(at, o.ok)
    /\ pc' = next
    /\ UNCHANGED <<prog, idx, polls, exc>>
    /\ UNCHANGED <<capVars, decVars, injVars>>

\* an install step: it raises when it fails
TcInstall(at, outcomes, next) ==
    /\ prog = "tc" /\ pc = at
    /\ \E o \in outcomes :
          /\ hooks' = o.hooks
          /\ oplog' = Logged(at, o.ok)
          /\ IF o.ok THEN pc' = next /\ exc' = exc ELSE TcRaised
    /\ UNCHANGED <<prog, idx, polls>>
    /\ UNCHANGED <<capVars, decVars, injVars>>

\* line 160
Tc_add_ingress ==
    TcInstall("add_ingress", AddOutcomes("ingress"), "add_filter_ingress")
\* lines 161-163
Tc_add_filter_ingress ==
    TcInstall("add_filter_ingress", AddFilterOutcomes("ingress_filter"), "add_htb")
\* line 165
Tc_add_htb ==
    TcInstall("add_htb", AddOutcomes("htb"), "add_filter_egress")
\* lines 166-168
Tc_add_filter_egress ==
    TcInstall("add_filter_egress", AddFilterOutcomes("egress_filter"), "open")

\* lines 170-173
Tc_open(ok) ==
    /\ prog = "tc" /\ pc = "open"
    /\ IF ok THEN pc' = "poll" /\ exc' = exc ELSE TcRaised
    /\ UNCHANGED <<prog, idx, hooks, oplog, polls>>
    /\ UNCHANGED <<capVars, decVars, injVars>>

\* lines 175-176: one call of perf_buffer_poll inside while True
Tc_poll(ok) ==
    /\ prog = "tc" /\ pc = "poll"
    /\ IF ok
       THEN polls < MaxPolls /\ polls' = polls + 1 /\ pc' = pc /\ exc' = exc
       ELSE polls' = polls /\ TcRaised
    /\ UNCHANGED <<prog, idx, hooks, oplog>>
    /\ UNCHANGED <<capVars, decVars, injVars>>

\* KeyboardInterrupt raised in the try block: line 177 takes it
Tc_KeyboardInterrupt ==
    /\ prog = "tc" /\ pc \in TcTryBody
    /\ pc' = "except_kbd"
    /\ UNCHANGED <<prog, idx, hooks, oplog, polls, exc>>
    /\ UNCHANGED <<capVars, decVars, injVars>>

\* line 178
Tc_except_kbd ==
    /\ prog = "tc" /\ pc = "except_kbd"
    /\ pc' = "finally"
    /\ UNCHANGED <<prog, idx, hooks, oplog, polls, exc>>
    /\ UNCHANGED <<capVars, decVars, injVars>>

\* lines 179-180: if idx is not None
Tc_finally ==
    /\ prog = "tc" /\ pc = "finally"
    /\ pc' = IF idx # 0 THEN "fin_del_ingress" ELSE "fin_print"
    /\ UNCHANGED <<prog, idx, hooks, oplog, polls, exc>>
    /\ UNCHANGED <<capVars, decVars, injVars>>

\* the teardown going from the first removal straight to the final print
Tc_fin_del_ingress_SkipsEgress == TcDel("fin_del_ingress", "ingress", "fin_print")

\* lines 181-182
Tc_fin_del_ingress == TcDel("fin_del_ingress", "ingress", "fin_del_htb")
\* lines 183-184
Tc_fin_del_htb == TcDel("fin_del_htb", "htb", "fin_print")

\* line 185; a pending exception then leaves main
Tc_fin_print ==
    /\ prog = "tc" /\ pc = "fin_print"
    /\ pc' = "exit"
    /\ UNCHANGED <<prog, idx, hooks, oplog, polls, exc>>
    /\ UNCHANGED <<capVars, decVars, injVars>>

\* ---- intercept_tc.py (module level)

\* os.system(...): the exit status of the command is dropped
ItSystem(at, outcomes, next) ==
    /\ prog = "intercept_tc" /\ pc = at
    /\ \E o \in outcomes :
          /\ hooks' = o.hooks
          /\ oplog' = Logged(at, o.ok)
    /\ pc' = next
    /\ UNCHANGED <<prog, idx, polls, exc>>
    /\ UNCHANGED <<capVars, decVars, injVars>>

\* lines 81-82
It_load(ok) ==
    /\ prog = "intercept_tc" /\ pc = "load"
    /\ IF ok THEN pc' = "pre_del" /\ exc' = exc
             ELSE pc' = "exit" /\ exc' = "Exception"
    /\ UNCHANGED <<prog, idx, hooks, oplog, polls>>
    /\ UNCHANGED <<capVars, decVars, injVars>>

\* line 85
It_pre_del == ItSystem("pre_del", DelOutcomes("clsact"), "add_qdisc")
\* line 86
It_add_qdisc == ItSystem("add_qdisc", AddOutcomes("clsact"), "add_filter")
\* line 87
It_add_filter ==
    ItSystem("add_filter", AddFilterOutcomes("clsact_egress_filter"), "open")

\* lines 90-149
It_open(ok) ==
    /\ prog = "intercept_tc" /\ pc = "open"
    /\ IF ok THEN pc' = "poll" /\ exc' = exc
             ELSE pc' = "exit" /\ exc' = "Exception"
    /\ UNCHANGED <<prog, idx, hooks, oplog, polls>>
    /\ UNCHANGED <<capVars, decVars, injVars>>

\* lines 150-152: an exception other than KeyboardInterrupt is not caught
It_poll(ok) ==
    /\ prog = "intercept_tc" /\ pc = "poll"
    /\ IF ok
       THEN polls < MaxPolls /\ polls' = polls + 1 /\ pc' = pc /\ exc' = exc
       ELSE polls' = polls /\ pc' = "exit" /\ exc' = "Exception"
    /\ UNCHANGED <<prog, idx, hooks, oplog>>
    /\ UNCHANGED <<capVars, decVars, injVars>>

\* KeyboardInterrupt: line 153 takes it only when raised inside the try block
It_KeyboardInterrupt ==
    /\ prog = "intercept_tc"
    /\ pc \in {"load", "pre_del", "add_qdisc", "add_filter", "open", "poll"}
    /\ IF pc = "poll"
       THEN pc' = "detach" /\ exc' = exc
       ELSE pc' = "exit" /\ exc' = "KeyboardInterrupt"
    /\ UNCHANGED <<prog, idx, hooks, oplog, polls>>
    /\ UNCHANGED <<capVars, decVars, injVars>>

\* the except clause without the removal command
It_detach_NoRemoval ==
    /\ prog = "intercept_tc" /\ pc = "detach"
    /\ pc' = "exit"
    /\ UNCHANGED <<prog, idx, hooks, oplog, polls, exc>>
    /\ UNCHANGED <<capVars, decVars, injVars>>

\* lines 154-155
It_detach == ItSystem("detach", DelOutcomes("clsact"), "exit")

\* ---- intercept_sendmsg.py (module level)

\* line 76: BPF(text=...) also registers the object's cleanup to run at exit
Sm_load(ok) ==
    /\ prog = "intercept_sendmsg" /\ pc = "load"
    /\ IF ok THEN pc' = "attach" /\ exc' = exc
             ELSE pc' = "exit" /\ exc' = "Exception"
    /\ UNCHANGED <<prog, idx, hooks, oplog, polls>>
    /\ UNCHANGED <<capVars, decVars, injVars>>

\* line 77
Sm_attach(ok) ==
    /\ prog = "intercept_sendmsg" /\ pc = "attach"
    /\ oplog' = Logged("attach_kprobe", ok)
    /\ IF ok
       THEN hooks' = hooks \cup {"kprobe"} /\ pc' = "open" /\ exc' = exc
       ELSE hooks' = hooks /\ pc' = "atexit" /\ exc' = "Exception"
    /\ UNCHANGED <<prog, idx, polls>>
    /\ UNCHANGED <<capVars, decVars, injVars>>

\* lines 80-157
Sm_open(ok) ==
    /\ prog = "intercept_sendmsg" /\ pc = "open"
    /\ IF ok THEN pc' = "poll" /\ exc' = exc
             ELSE pc' = "atexit" /\ exc' = "Exception"
    /\ UNCHANGED <<prog, idx, hooks, oplog, polls>>
    /\ UNCHANGED <<capVars, decVars, injVars>>

\* lines 158-160
Sm_poll(ok) ==
    /\ prog = "intercept_sendmsg" /\ pc = "poll"
    /\ IF ok
       THEN polls < MaxPolls /\ polls' = polls + 1 /\ pc' = pc /\ exc' = exc
       ELSE polls' = polls /\ pc' = "atexit" /\ exc' = "Exception"
    /\ UNCHANGED <<prog, idx, hooks, oplog>>
    /\ UNCHANGED <<capVars, decVars, injVars>>

\* KeyboardInterrupt: lines 161-162 take it inside the loop and call exit()
Sm_KeyboardInterrupt ==
    /\ prog = "intercept_sendmsg"
    /\ pc \in {"load", "attach", "open", "poll"}
    /\ pc' = IF pc = "load" THEN "exit" ELSE "atexit"
    /\ exc' = IF pc = "poll" THEN "SystemExit" ELSE "KeyboardInterrupt"
    /\ UNCHANGED <<prog, idx, hooks, oplog, polls>>
    /\ UNCHANGED <<capVars, decVars, injVars>>

\* interpreter exit: the cleanup registered at line 76 detaches the kprobes
\* the object attached
Sm_atexit ==
    /\ prog = "intercept_sendmsg" /\ pc = "atexit"
    /\ hooks' = hooks \ {"kprobe"}
    /\ oplog' = Logged("cleanup", TRUE)
    /\ pc' = "exit"
    /\ UNCHANGED <<prog, idx, polls, exc>>
    /\ UNCHANGED <<capVars, decVars, injVars>>

\* ---- the specification

\* hooks a previous run of the same script may have left behind
StaleHooks(p) ==
    CASE p = "tc" -> {{}, {"ingress", "ingress_filter", "htb", "egress_filter"}}
      [] p = "intercept_tc" -> {{}, {"clsact", "clsact_egress_filter"}}
      [] OTHER -> {{}}

InitLife ==
    /\ prog \in {"tc", "intercept_tc", "intercept_sendmsg"}
    /\ pc = IF prog = "tc" THEN "module" ELSE "load"
    /\ idx = 0
    /\ hooks \in StaleHooks(prog)
    /\ oplog = << >>
    /\ polls = 0
    /\ exc = "none"
    /\ IdleCapture
    /\ IdleDec
    /\ IdleInject

NextLife ==
    \/ \E ok \in BOOLEAN :
          \/ Tc_module(ok)
          \/ Tc_load_func(ok)
          \/ Tc_link_lookup(ok)
          \/ Tc_open(ok)
          \/ Tc_poll(ok)
          \/ It_load(ok)
          \/ It_open(ok)
          \/ It_poll(ok)
          \/ Sm_load(ok)
          \/ Sm_attach(ok)
          \/ Sm_open(ok)
          \/ Sm_poll(ok)
    \/ Tc_pre_del_ingress
    \/ Tc_pre_del_htb
    \/ Tc_add_ingress
    \/ Tc_add_filter_ingress
    \/ Tc_add_htb
    \/ Tc_add_filter_egress
    \/ Tc_KeyboardInterrupt
    \/ Tc_except_kbd
    \/ Tc_finally
    \/ Tc_fin_del_ingress
    \/ Tc_fin_del_htb
    \/ Tc_fin_print
    \/ It_pre_del
    \/ It_add_qdisc
    \/ It_add_filter
    \/ It_KeyboardInterrupt
    \/ It_detach
    \/ Sm_KeyboardInterrupt
    \/ Sm_atexit

SpecLife == InitLife /\ [][NextLife]_vars

\* the install operations a script issues, and the first operation of its
\* teardown
InstallOps ==
    {"add_ingress", "add_filter_ingress", "add_htb", "add_filter_egress",
     "add_qdisc", "add_filter", "attach_kprobe"}

TeardownOps == {"fin_del_ingress", "detach", "cleanup"}

Installed == \E i \in 1 .. Len(oplog) : oplog[i].op \in InstallOps /\ oplog[i].ok

DetachRuns == Cardinality({i \in 1 .. Len(oplog) : oplog[i].op \in TeardownOps})

\* C2: when the script has exited after installing a hook, its teardown has
\* run exactly once; no exit path runs the teardown twice.
C2_DetachExactlyOnce ==
    pc = "exit" => /\ DetachRuns <= 1
                   /\ Installed => DetachRuns = 1

\* SpecLife with the scheduling of a running interpreter: a script that can
\* take a step takes one
SpecLifeFair == SpecLife /\ WF_vars(NextLife)

\* an install step has failed: a hook was not added, or tc.py failed before
\* it knew the interface
FailedInstall == \E i \in 1 .. Len(oplog) : oplog[i].op \in InstallOps /\ ~oplog[i].ok

AttachFailed == FailedInstall \/ (prog = "tc" /\ idx = 0 /\ exc = "Exception")

\* C14: in a run whose hook installation failed, the script is never in its
\* poll loop and no poll has completed, and it exits with an error.
C14_FailedAttachNeverPolls ==
    AttachFailed => /\ pc # "poll"
                    /\ polls = 0
                    /\ pc = "exit" => exc # "none"

\* the hook removal steps: pre-attach cleanup and teardown
RemovalOps ==
    {"pre_del_ingress", "pre_del_htb", "fin_del_ingress", "fin_del_htb",
     "pre_del", "detach"}

\* the step issues a removal that fails
FailedRemovalStep ==
    /\ Len(oplog') = Len(oplog) + 1
    /\ oplog'[Len(oplog')].op \in RemovalOps
    /\ ~oplog'[Len(oplog')].ok

\* C15: a hook removal step that fails, in the pre-attach cleanup or in the
\* teardown, raises nothing: no exception becomes pending and the script goes
\* on with its next statement.
C15_FailedRemovalIsSwallowed ==
    [][FailedRemovalStep => (exc' = exc /\ pc' # "finally" /\ pc' # "except_kbd")]_vars

\* C15 witness: tc.py has exited without error after both removals of its
\* teardown failed on hooks that were absent.
C15_Witness ==
    /\ prog = "tc" /\ pc = "exit" /\ exc = "none"
    /\ hooks = {}
    /\ \E i \in 1 .. Len(oplog) : oplog[i] = [op |-> "fin_del_ingress", ok |-> FALSE]
    /\ \E i \in 1 .. Len(oplog) : oplog[i] = [op |-> "fin_del_htb", ok |-> FALSE]

\* the positions after the poll loop has been left
AfterLoop ==
    {"except_kbd", "finally", "fin_del_ingress", "fin_del_htb", "fin_print",
     "detach", "atexit", "exit"}

\* the script has polled and was ended by KeyboardInterrupt, not by an error
EndedBySignal == pc = "exit" /\ polls > 0 /\ exc \in {"none", "SystemExit"}

FailedTeardownRemoval ==
    \E i \in 1 .. Len(oplog) :
        oplog[i].op \in {"fin_del_ingress", "fin_del_htb", "detach"} /\ ~oplog[i].ok

RemovalStep(op) ==
    /\ Len(oplog') = Len(oplog) + 1
    /\ oplog'[Len(oplog')].op = op

\* position of the first entry of the log for op, 0 when there is none
FirstLogged(op) ==
    IF \E i \in 1 .. Len(oplog) : oplog[i].op = op
    THEN CHOOSE i \in 1 .. Len(oplog) :
             /\ oplog[i].op = op
             /\ \A j \in 1 .. i - 1 : oplog[j].op # op
    ELSE 0

\* the removals of the teardown that the script has issued
TeardownRemovals ==
    {i \in 1 .. Len(oplog) : oplog[i].op \in {"fin_del_ingress", "fin_del_htb", "detach"}}

\* C21: the teardown of the link-classifier hooks covers both directions and
\* the disciplines. In tc.py the removal of the ingress discipline is always
\* followed by the attempt to remove the egress discipline, whether the first
\* removal succeeded or failed, so a teardown that has finished has issued
\* both, in that order; in intercept_tc.py the teardown removes the clsact
\* discipline, which carries both directions. When every removal of a
\* finished teardown succeeded, no discipline and no filter is left.
C21_TeardownRemovesBothDirections ==
    /\ [][RemovalStep("fin_del_ingress") => (pc' = "fin_del_htb" /\ exc' = exc)]_vars
    /\ []((prog = "tc" /\ pc \in {"fin_print", "exit"} /\ idx # 0) =>
              /\ FirstLogged("fin_del_ingress") > 0
              /\ FirstLogged("fin_del_htb") > FirstLogged("fin_del_ingress"))
    /\ []((prog \in {"tc", "intercept_tc"} /\ pc = "exit" /\ TeardownRemovals # {}
              /\ \A i \in TeardownRemovals : oplog[i].ok) => hooks = {})

\* C21 witness: tc.py has finished a teardown in which the removal of the
\* ingress discipline failed and the removal of the egress discipline was
\* still issued, and succeeded.
C21_Witness ==
    /\ prog = "tc" /\ pc = "exit"
    /\ \E i \in 1 .. Len(oplog) : oplog[i] = [op |-> "fin_del_ingress", ok |-> FALSE]
    /\ \E i \in 1 .. Len(oplog) : oplog[i] = [op |-> "fin_del_htb", ok |-> TRUE]
    /\ "htb" \notin hooks

\* the steps of tc.py main before its loop, in program order
TcSetupOps ==
    <<"pre_del_ingress", "pre_del_htb",
      "add_ingress", "add_filter_ingress", "add_htb", "add_filter_egress">>

\* C30: tc.py is in its consumer loop only after it has issued the removal
\* of a stale ingress and of a stale egress discipline and then the four
\* install steps, in program order, each install step with success, so that
\* both disciplines and both filters are in place; as long as the interface
\* is not known nothing has been added or removed; and once the interface is
\* known, an exit, whatever ended the run, comes after the teardown has
\* issued the removal of both disciplines.
C30_LoopOnlyAfterFullInstall ==
    prog = "tc" =>
        /\ pc = "poll" =>
              /\ Len(oplog) = Len(TcSetupOps)
              /\ \A i \in 1 .. Len(oplog) :
                    /\ oplog[i].op = TcSetupOps[i]
                    /\ i > 2 => oplog[i].ok
              /\ hooks = {"ingress", "ingress_filter", "htb", "egress_filter"}
        /\ idx = 0 => oplog = << >>
        /\ (pc = "exit" /\ idx # 0) =>
              /\ FirstLogged("fin_del_ingress") > 0
              /\ FirstLogged("fin_del_htb") > FirstLogged("fin_del_ingress")

\* C30 witness: tc.py installed the ingress side, failed to add the egress
\* discipline, and has exited with the error after a teardown that removed
\* what was installed.
C30_Witness ==
    /\ prog = "tc" /\ pc = "exit" /\ exc = "Exception" /\ polls = 0
    /\ \E i \in 1 .. Len(oplog) : oplog[i] = [op |-> "add_filter_ingress", ok |-> TRUE]
    /\ \E i \in 1 .. Len(oplog) : oplog[i] = [op |-> "add_htb", ok |-> FALSE]
    /\ \E i \in 1 .. Len(oplog) : oplog[i] = [op |-> "fin_del_ingress", ok |-> TRUE]
    /\ \E i \in 1 .. Len(oplog) : oplog[i].op = "fin_del_htb"
    /\ hooks = {}

-----------------------------------------------------------------------------
(* The frame decoders.  A buffer is a sequence of byte values 0 .. 255.    *)

\* data[offset:offset+n]: a Python slice stops at the end of the buffer
Slice(d, offset, n) == SubSeq(d, offset + 1, Min(offset + n, Len(d)))

\* data[offset + 1:], the rest taken one byte late
SliceFrom_SkipOne(d, offset) == SubSeq(d, offset + 2, Len(d))

\* data[offset:]
SliceFrom(d, offset) == SubSeq(d, offset + 1, Len(d))

\* the same read with the byte order of ">H"
UnpackH_BigEndian(b) == 256 * b[1] + b[2]

\* struct.unpack("<H", b)[0] for a two byte b
UnpackH(b) == b[1] + 256 * b[2]

\* struct.unpack("<I", b)[0] for a four byte b
UnpackI(b) == b[1] + 256 * b[2] + 65536 * b[3] + 16777216 * b[4]

\* struct.unpack("<Q", b)[0] for an eight byte b, as its low and high halves
UnpackQ(b) == [lo |-> UnpackI(SubSeq(b, 1, 4)), hi |-> UnpackI(SubSeq(b, 5, 8))]

\* bytes.hex(): two hexadecimal digits per byte, high digit first; a digit is
\* kept as its value 0 .. 15
RECURSIVE Hex(_)
Hex(b) ==
    IF b = << >> THEN << >>
    ELSE <<Head(b) \div 16, Head(b) % 16>> \o Hex(Tail(b))

\* bytes.decode("utf-8", errors="ignore"): the code points of the well-formed
\* sequences; a byte that starts no well-formed sequence is dropped
IsCont(d, i) == i <= Len(d) /\ d[i] >= 128 /\ d[i] <= 191

SecondOk(lead, d, i) ==
    /\ IsCont(d, i)
    /\ lead = 224 => d[i] >= 160
    /\ lead = 237 => d[i] <= 159
    /\ lead = 240 => d[i] >= 144
    /\ lead = 244 => d[i] <= 143

RECURSIVE Utf8From(_, _)
Utf8From(d, i) ==
    IF i > Len(d) THEN << >>
    ELSE LET c == d[i] IN
         IF c < 128 THEN <<c>> \o Utf8From(d, i + 1)
         ELSE IF c >= 194 /\ c <= 223 /\ IsCont(d, i + 1)
         THEN <<(c % 32) * 64 + (d[i + 1] % 64)>> \o Utf8From(d, i + 2)
         ELSE IF c >= 224 /\ c <= 239 /\ SecondOk(c, d, i + 1) /\ IsCont(d, i + 2)
         THEN <<(c % 16) * 4096 + (d[i + 1] % 64) * 64 + (d[i + 2] % 64)>>
              \o Utf8From(d, i + 3)
         ELSE IF c >= 240 /\ c <= 244 /\ SecondOk(c, d, i + 1)
                 /\ IsCont(d, i + 2) /\ IsCont(d, i + 3)
         THEN <<(c % 8) * 262144 + (d[i + 1] % 64) * 4096
                  + (d[i + 2] % 64) * 64 + (d[i + 3] % 64)>>
              \o Utf8From(d, i + 4)
         ELSE Utf8From(d, i + 1)

Utf8DecodeIgnore(b) == Utf8From(b, 1)

\* the status strings, by what they say
StatusOK == [kind |-> "OK", field |-> "", offset |-> -1]
\* f"Too short for {field} (offset={offset}, ...)"
TooShortAt(field, offset) == [kind |-> "Too short", field |-> field, offset |-> offset]
\* f"Too short for {field}", a message without offset
TooShortFor(field) == [kind |-> "Too short", field |-> field, offset |-> -1]
\* the exception leaving the decoder instead of being turned into a status
StatusError_Uncaught == [kind |-> "Raised", field |-> "", offset |-> -1]

\* f"Error: {e}"
StatusError == [kind |-> "Error", field |-> "", offset |-> -1]

\* the empty dict returned with a failure
EmptyDict == [k \in {} |-> 0]

\* ---- intercept_sendmsg.py: decode_arpc_frame

\* the comparison made only before the two byte length prefixes
TooShort_OnlyPrefixes(d, offset, n) == n = 2 /\ Len(d) < offset + n

\* the comparison made before each slice, with <= for <
TooShort_OffByOne(d, offset, n) == Len(d) <= offset + n

\* "if len(data) < offset + n", lines 94, 99, 104, 109, 114, 119
TooShort(d, offset, n) == Len(d) < offset + n

decode_arpc_frame(d) ==
    LET o0 == 0 IN
    IF TooShort(d, o0, 2)
    THEN [status |-> TooShortAt("service_len", o0), frame |-> EmptyDict] ELSE
    LET service_len == UnpackH(Slice(d, o0, 2))
        o1 == o0 + 2 IN
    IF TooShort(d, o1, service_len)
    THEN [status |-> TooShortAt("service", o1), frame |-> EmptyDict] ELSE
    LET service == Utf8DecodeIgnore(Slice(d, o1, service_len))
        o2 == o1 + service_len IN
    IF TooShort(d, o2, 2)
    THEN [status |-> TooShortAt("method_len", o2), frame |-> EmptyDict] ELSE
    LET method_len == UnpackH(Slice(d, o2, 2))
        o3 == o2 + 2 IN
    IF TooShort(d, o3, method_len)
    THEN [status |-> TooShortAt("method", o3), frame |-> EmptyDict] ELSE
    LET method == Utf8DecodeIgnore(Slice(d, o3, method_len))
        o4 == o3 + method_len IN
    IF TooShort(d, o4, 2)
    THEN [status |-> TooShortAt("header_len", o4), frame |-> EmptyDict] ELSE
    LET header_len == UnpackH(Slice(d, o4, 2))
        o5 == o4 + 2 IN
    IF TooShort(d, o5, header_len)
    THEN [status |-> TooShortAt("headers", o5), frame |-> EmptyDict] ELSE
    LET headers_raw == Slice(d, o5, header_len)
        o6 == o5 + header_len IN
    [status |-> StatusOK,
     frame |-> [service |-> service, method |-> method,
                headers |-> Hex(headers_raw),
                payload |-> Hex(SliceFrom(d, o6))]]

\* ---- intercept_tc.py: decode_arpc_frame

\* struct.unpack("<H", b) raises struct.error unless b holds two bytes; the
\* except clause at line 124 turns that into an "Error: ..." status
decode_arpc_frame_tc(d) ==
    LET o0 == 0 IN
    IF Len(d) < o0 + 2
    THEN [status |-> TooShortFor("service_len"), frame |-> EmptyDict] ELSE
    LET service_len == UnpackH(Slice(d, o0, 2))
        o1 == o0 + 2
        service == Utf8DecodeIgnore(Slice(d, o1, service_len))
        o2 == o1 + service_len IN
    IF Len(Slice(d, o2, 2)) # 2
    THEN [status |-> StatusError, frame |-> EmptyDict] ELSE
    LET method_len == UnpackH(Slice(d, o2, 2))
        o3 == o2 + 2
        method == Utf8DecodeIgnore(Slice(d, o3, method_len))
        o4 == o3 + method_len IN
    IF Len(Slice(d, o4, 2)) # 2
    THEN [status |-> StatusError, frame |-> EmptyDict] ELSE
    LET header_len == UnpackH(Slice(d, o4, 2))
        o5 == o4 + 2
        headers_raw == Slice(d, o5, header_len)
        o6 == o5 + header_len IN
    [status |-> StatusOK,
     frame |-> [service |-> service, method |-> method,
                headers |-> Hex(headers_raw),
                payload |-> Hex(SliceFrom(d, o6))]]

\* ---- tc/tc.py: decode_rpc_frame

\* the comparison made before each fixed field, with <= for <
FieldShort_OffByOne(d, offset, n) == Len(d) <= offset + n

\* "if len(data) < offset + n" followed by a return, lines 35, 41, 47, 52, 58,
\* 63, 69
FieldShort(d, offset, n) == Len(d) < offset + n

\* "if len(data) < offset + n" followed by break, lines 77, 82, 87, 92
ParamShort(d, offset, n) == Len(d) < offset + n

\* params[param_name] = param_value on a dict, which keeps insertion order: a
\* name already present keeps its position and takes the new value
DictSet(params, k, v) ==
    IF \E i \in 1 .. Len(params) : params[i].name = k
    THEN [i \in 1 .. Len(params) |->
             IF params[i].name = k THEN [name |-> k, value |-> v] ELSE params[i]]
    ELSE Append(params, [name |-> k, value |-> v])

\* the while loop of lines 76 - 97
RECURSIVE ParamLoop(_, _, _)
ParamLoop(d, offset, params) ==
    IF ~(offset < Len(d)) THEN params ELSE
    IF ParamShort(d, offset, 2) THEN params ELSE
    LET param_len == UnpackH(Slice(d, offset, 2))
        o1 == offset + 2 IN
    IF ParamShort(d, o1, param_len) THEN params ELSE
    LET param_name == Utf8DecodeIgnore(Slice(d, o1, param_len))
        o2 == o1 + param_len IN
    IF ParamShort(d, o2, 2) THEN params ELSE
    LET value_len == UnpackH(Slice(d, o2, 2))
        o3 == o2 + 2 IN
    IF ParamShort(d, o3, value_len) THEN params ELSE
    LET param_value == Utf8DecodeIgnore(Slice(d, o3, value_len))
        o4 == o3 + value_len IN
    ParamLoop(d, o4, DictSet(params, param_name, param_value))

decode_rpc_frame(d) ==
    LET o0 == 0 IN
    IF FieldShort(d, o0, 8)
    THEN [status |-> TooShortAt("message_id", o0), frame |-> EmptyDict] ELSE
    LET message_id == UnpackQ(Slice(d, o0, 8))
        o1 == o0 + 8 IN
    IF FieldShort(d, o1, 4)
    THEN [status |-> TooShortAt("protocol_version", o1), frame |-> EmptyDict] ELSE
    LET protocol_version == UnpackI(Slice(d, o1, 4))
        o2 == o1 + 4 IN
    IF FieldShort(d, o2, 2)
    THEN [status |-> TooShortAt("service_len", o2), frame |-> EmptyDict] ELSE
    LET service_len == UnpackH(Slice(d, o2, 2))
        o3 == o2 + 2 IN
    IF FieldShort(d, o3, service_len)
    THEN [status |-> TooShortAt("service", o3), frame |-> EmptyDict] ELSE
    LET service == Utf8DecodeIgnore(Slice(d, o3, service_len))
        o4 == o3 + service_len IN
    IF FieldShort(d, o4, 2)
    THEN [status |-> TooShortAt("method_len", o4), frame |-> EmptyDict] ELSE
    LET method_len == UnpackH(Slice(d, o4, 2))
        o5 == o4 + 2 IN
    IF FieldShort(d, o5, method_len)
    THEN [status |-> TooShortAt("method", o5), frame |-> EmptyDict] ELSE
    LET method == Utf8DecodeIgnore(Slice(d, o5, method_len))
        o6 == o5 + method_len IN
    IF FieldShort(d, o6, 4)
    THEN [status |-> TooShortAt("message_type", o6), frame |-> EmptyDict] ELSE
    LET message_type == UnpackI(Slice(d, o6, 4))
        o7 == o6 + 4 IN
    [status |-> StatusOK,
     frame |-> [message_id |-> message_id,
                protocol_version |-> protocol_version,
                service |-> service, method |-> method,
                message_type |-> message_type,
                params |-> ParamLoop(d, o7, << >>)]]

-----------------------------------------------------------------------------
(* SpecDecA: a sender encodes a Variant A frame, the buffer is cut at any   *)
(* position, and one of the two Variant A decoders is applied to it.        *)

\* all sequences over S of length at most n
RECURSIVE SeqsUpTo(_, _)
SeqsUpTo(S, n) ==
    IF n = 0 THEN {<< >>}
    ELSE LET shorter == SeqsUpTo(S, n - 1)
         IN  shorter \cup {Append(q, x) : q \in {t \in shorter : Len(t) = n - 1}, x \in S}

\* str.encode("utf-8") of a sequence of code points
RECURSIVE Utf8Encode(_)
Utf8Encode(cps) ==
    IF cps = << >> THEN << >>
    ELSE LET c == Head(cps) IN
         (IF c < 128 THEN <<c>>
          ELSE IF c < 2048 THEN <<192 + (c \div 64), 128 + (c % 64)>>
          ELSE IF c < 65536
          THEN <<224 + (c \div 4096), 128 + ((c \div 64) % 64), 128 + (c % 64)>>
          ELSE <<240 + (c \div 262144), 128 + ((c \div 4096) % 64),
                 128 + ((c \div 64) % 64), 128 + (c % 64)>>)
         \o Utf8Encode(Tail(cps))

\* struct.pack("<H", n)
PackH(n) == <<n % 256, (n \div 256) % 256>>

\* bytes.fromhex(): the inverse of bytes.hex()
RECURSIVE FromHex(_)
FromHex(h) ==
    IF Len(h) < 2 THEN << >>
    ELSE <<h[1] * 16 + h[2]>> \o FromHex(SubSeq(h, 3, Len(h)))

\* the Variant A wire format (spec section 6), from the raw bytes of each field
EncodeA(service, method, header, payload) ==
    PackH(Len(service)) \o service \o PackH(Len(method)) \o method
        \o PackH(Len(header)) \o header \o payload

\* the byte values the sender draws each field from: 'a', the two bytes of
\* U+00E9, and bytes that are not UTF-8
ServiceBytes == {97, 195, 169}
MethodBytes == {98, 255}
HeaderBytes == {200}
PayloadBodyBytes == {7}

FramesA ==
    [service : SeqsUpTo(ServiceBytes, MaxService),
     method : SeqsUpTo(MethodBytes, MaxMethod),
     header : SeqsUpTo(HeaderBytes, MaxHeader),
     payload : SeqsUpTo(PayloadBodyBytes, MaxPayload)]

WireA(f) == EncodeA(f.service, f.method, f.header, f.payload)

NoResult == [which |-> "none"]

InitDecA ==
    /\ \E f \in FramesA :
          \E cut \in 0 .. Len(WireA(f)) :
              /\ frame = [variant |-> "A", fields |-> f, cut |-> cut]
              /\ data = SubSeq(WireA(f), 1, cut)
    /\ result = NoResult
    /\ stdout = << >>
    /\ IdleCapture
    /\ IdleLife
    /\ IdleInject

\* print_event of intercept_sendmsg.py, line 143
DecodeSendmsg ==
    /\ frame.variant = "A"
    /\ result.which = "none"
    /\ result' = [which |-> "intercept_sendmsg", out |-> decode_arpc_frame(data)]
    /\ UNCHANGED <<frame, data, stdout, injVars>>
    /\ UNCHANGED <<capVars, lifeVars>>

\* decode_arpc_frame of intercept_tc.py applied to the buffer, as its
\* print_event does at line 135
DecodeInterceptTc ==
    /\ frame.variant = "A"
    /\ result.which = "none"
    /\ result' = [which |-> "intercept_tc", out |-> decode_arpc_frame_tc(data)]
    /\ UNCHANGED <<frame, data, stdout, injVars>>
    /\ UNCHANGED <<capVars, lifeVars>>

NextDecA == DecodeSendmsg \/ DecodeInterceptTc

SpecDecA == InitDecA /\ [][NextDecA]_vars

-----------------------------------------------------------------------------
(* What the sender knows about the buffer, independently of the decoders *)

\* the declared-length fields of a Variant A frame in wire order, each with
\* the offsets of its first byte and of the byte after its last
LayoutA(f) ==
    LET ls == Len(f.service)
        lm == Len(f.method)
        lh == Len(f.header)
    IN  << [name |-> "service_len", start |-> 0, end |-> 2],
           [name |-> "service", start |-> 2, end |-> 2 + ls],
           [name |-> "method_len", start |-> 2 + ls, end |-> 4 + ls],
           [name |-> "method", start |-> 4 + ls, end |-> 4 + ls + lm],
           [name |-> "header_len", start |-> 4 + ls + lm, end |-> 6 + ls + lm],
           [name |-> "headers", start |-> 6 + ls + lm, end |-> 6 + ls + lm + lh] >>

LayoutEnd(layout) == layout[Len(layout)].end

\* the first field of the layout that a buffer of cut bytes does not hold whole
FirstCutField(layout, cut) ==
    LET i == CHOOSE k \in 1 .. Len(layout) :
                 /\ layout[k].end > cut
                 /\ \A j \in 1 .. k - 1 : layout[j].end <= cut
    IN  layout[i]

\* the bytes are the UTF-8 encoding of some text
TextChars == {97, 98, 233}
IsText(b) == \E t \in SeqsUpTo(TextChars, Len(b)) : Utf8Encode(t) = b

\* the frame rebuilt from the fields a Variant A decoder returned
ReEncodeA(fr) ==
    EncodeA(Utf8Encode(fr.service), Utf8Encode(fr.method),
            FromHex(fr.headers), FromHex(fr.payload))

CutInFieldsA == frame.cut < LayoutEnd(LayoutA(frame.fields))

-----------------------------------------------------------------------------
(* Claims about the Variant A decoders, checked under SpecDecA *)

\* C3: for a buffer cut before the end of the header field, decode_arpc_frame
\* of intercept_sendmsg.py returns the "Too short" status that names the
\* first field the buffer does not hold whole and the offset where that field
\* starts, returns the empty dict, and does not leave through its except
\* clause.
C3_TruncationNamesFieldAndOffset ==
    (result.which = "intercept_sendmsg" /\ CutInFieldsA)
    => LET exp == FirstCutField(LayoutA(frame.fields), frame.cut)
       IN  /\ result.out.status = TooShortAt(exp.name, exp.start)
           /\ result.out.frame = EmptyDict

\* C3 witness: the buffer holds only service_len = 2 and the decoder has
\* failed on "service" at offset 2.
C3_Witness ==
    /\ result.which = "intercept_sendmsg"
    /\ data = <<2, 0>>
    /\ result.out.status = TooShortAt("service", 2)

\* C4: decode_arpc_frame of intercept_tc.py, given a buffer that holds the
\* service length prefix but is cut before the end of the header field, fails
\* with the "Too short" status naming the first field not held whole and the
\* offset of that field; it does not return OK.
C4_TcDecoderChecksEverySlice ==
    (result.which = "intercept_tc" /\ CutInFieldsA /\ frame.cut >= 2)
    => LET exp == FirstCutField(LayoutA(frame.fields), frame.cut)
       IN  result.out.status = TooShortAt(exp.name, exp.start)

\* C10 as stated: for every buffer that holds all declared-length fields,
\* whatever the bytes of service and method, the decoder returns OK and the
\* returned fields re-encode to the buffer.
C10_RoundTripA_Original ==
    (result.which # "none" /\ ~CutInFieldsA)
    => /\ result.out.status = StatusOK
       /\ ReEncodeA(result.out.frame) = data

\* C10 amended: for every buffer that holds all declared-length fields and
\* whose service and method bytes are UTF-8 text, both Variant A decoders
\* return OK and the returned fields re-encode to exactly the buffer.
C10_RoundTripA ==
    (result.which # "none" /\ ~CutInFieldsA
        /\ IsText(frame.fields.service) /\ IsText(frame.fields.method))
    => /\ result.out.status = StatusOK
       /\ ReEncodeA(result.out.frame) = data

\* C10 witness: a whole frame whose service is the two byte encoding of
\* U+00E9, with a header and a payload, has been decoded.
C10_Witness ==
    /\ result.which # "none"
    /\ frame.cut = Len(WireA(frame.fields))
    /\ frame.fields.service = <<195, 169>>
    /\ frame.fields.method = <<98>>
    /\ Len(frame.fields.header) >= 1
    /\ Len(frame.fields.payload) >= 1
    /\ result.out.status = StatusOK

-----------------------------------------------------------------------------
(* SpecDecB: a sender encodes a Variant B frame, the buffer is cut at any   *)
(* position, and the event handler of tc/tc.py decodes it.                  *)

\* struct.pack("<I", n)
PackI(n) == <<n % 256, (n \div 256) % 256, (n \div 65536) % 256, (n \div 16777216) % 256>>

\* struct.pack("<Q", n), n given as its low and high halves
PackQ(m) == PackI(m.lo) \o PackI(m.hi)

\* one parameter pair on the wire
EncodePair(p) == PackH(Len(p.name)) \o p.name \o PackH(Len(p.value)) \o p.value

RECURSIVE EncodePairs(_)
EncodePairs(ps) ==
    IF ps = << >> THEN << >> ELSE EncodePair(Head(ps)) \o EncodePairs(Tail(ps))

\* the Variant B wire format (spec section 6), from the raw bytes of each field
EncodeB(f) ==
    PackQ(f.message_id) \o PackI(f.protocol_version)
        \o PackH(Len(f.service)) \o f.service
        \o PackH(Len(f.method)) \o f.method
        \o PackI(f.message_type) \o EncodePairs(f.params)

\* the values the sender draws each field from
MessageIds == {[lo |-> 42, hi |-> 0], [lo |-> 7, hi |-> 1]}
BServiceBytes == {115}
BMethodBytes == {71}
\* the pairs k=v and k=<not UTF-8>, which share a name, and the pair whose
\* name and value are both empty
PairsB ==
    { [name |-> <<107>>, value |-> <<118>>],
      [name |-> <<107>>, value |-> <<255>>],
      [name |-> << >>, value |-> << >>] }

FramesB ==
    [message_id : MessageIds,
     protocol_version : {1},
     service : SeqsUpTo(BServiceBytes, MaxService),
     method : SeqsUpTo(BMethodBytes, MaxMethod),
     message_type : {0},
     params : SeqsUpTo(PairsB, MaxParams)]

InitDecB ==
    /\ \E f \in FramesB :
          \E cut \in 0 .. Len(EncodeB(f)) :
              /\ frame = [variant |-> "B", fields |-> f, cut |-> cut]
              /\ data = SubSeq(EncodeB(f), 1, cut)
    /\ result = NoResult
    /\ stdout = << >>
    /\ IdleCapture
    /\ IdleLife
    /\ IdleInject

\* EventHandler.process_event of tc/tc.py: a non-empty payload is decoded
process_event ==
    /\ frame.variant = "B"
    /\ result.which = "none"
    /\ Len(data) > 0
    /\ result' = [which |-> "tc", out |-> decode_rpc_frame(data)]
    /\ UNCHANGED <<frame, data, stdout, injVars>>
    /\ UNCHANGED <<capVars, lifeVars>>

NextDecB == process_event

SpecDecB == InitDecB /\ [][NextDecB]_vars

-----------------------------------------------------------------------------
(* What the sender knows about a Variant B buffer *)

\* the fields before the parameters, in wire order
FixedLayoutB(f) ==
    LET ls == Len(f.service)
        lm == Len(f.method)
    IN  << [name |-> "message_id", start |-> 0, end |-> 8],
           [name |-> "protocol_version", start |-> 8, end |-> 12],
           [name |-> "service_len", start |-> 12, end |-> 14],
           [name |-> "service", start |-> 14, end |-> 14 + ls],
           [name |-> "method_len", start |-> 14 + ls, end |-> 16 + ls],
           [name |-> "method", start |-> 16 + ls, end |-> 16 + ls + lm],
           [name |-> "message_type", start |-> 16 + ls + lm, end |-> 20 + ls + lm] >>

\* the offset after the k-th parameter pair
PairEnd(f, k) ==
    LayoutEnd(FixedLayoutB(f)) + Len(EncodePairs(SubSeq(f.params, 1, k)))

\* the number of parameter pairs a buffer of cut bytes holds whole
WholePairs(f, cut) ==
    CHOOSE k \in 0 .. Len(f.params) :
        /\ PairEnd(f, k) <= cut
        /\ k < Len(f.params) => PairEnd(f, k + 1) > cut

CutInFixedB == frame.cut < LayoutEnd(FixedLayoutB(frame.fields))

\* the buffer ends inside a parameter pair: some bytes of the pair are held,
\* but not all of them
CutInParamsB ==
    /\ ~CutInFixedB
    /\ frame.cut > PairEnd(frame.fields, WholePairs(frame.fields, frame.cut))

\* params holds one entry per name of the first k pairs sent, each with the
\* value of the last of those pairs that carries the name
HoldsPairs(params, sentPairs, k) ==
    /\ \A i, j \in 1 .. Len(params) : params[i].name = params[j].name => i = j
    /\ {params[i].name : i \in 1 .. Len(params)}
           = {Utf8DecodeIgnore(sentPairs[i].name) : i \in 1 .. k}
    /\ \A i \in 1 .. Len(params) :
          \E j \in 1 .. k :
             /\ Utf8DecodeIgnore(sentPairs[j].name) = params[i].name
             /\ Utf8DecodeIgnore(sentPairs[j].value) = params[i].value
             /\ \A l \in j + 1 .. k :
                   Utf8DecodeIgnore(sentPairs[l].name) # params[i].name

-----------------------------------------------------------------------------
(* Claims about the Variant B decoder, checked under SpecDecB *)

\* C5 as stated: for a buffer cut before the end of any field, the name or
\* value of a parameter pair included, decode_rpc_frame returns a "Too short"
\* failure.
C5_TruncationAnywhereFails ==
    (result.which = "tc" /\ (CutInFixedB \/ CutInParamsB))
    => result.out.status.kind = "Too short"

\* C5 amended: for a buffer cut before the end of message_id,
\* protocol_version, service_len, service, method_len, method or message_type,
\* decode_rpc_frame returns the "Too short" status naming the first field not
\* held whole and the offset where it starts, with the empty dict; for a
\* buffer cut inside the parameter pairs it returns OK with the pairs that
\* precede the cut whole, and the partial pair is discarded.
C5_TruncationInFixedFieldsFails ==
    /\ (result.which = "tc" /\ CutInFixedB)
       => LET exp == FirstCutField(FixedLayoutB(frame.fields), frame.cut)
          IN  /\ result.out.status = TooShortAt(exp.name, exp.start)
              /\ result.out.frame = EmptyDict
    /\ (result.which = "tc" /\ CutInParamsB)
       => /\ result.out.status = StatusOK
          /\ HoldsPairs(result.out.frame.params, frame.fields.params,
                        WholePairs(frame.fields, frame.cut))

\* C5 witness: a buffer of ten bytes, cut inside protocol_version, has been
\* decoded to the failure naming protocol_version at offset 8.
C5_Witness ==
    /\ result.which = "tc"
    /\ frame.cut = 10
    /\ result.out.status = TooShortAt("protocol_version", 8)
    /\ result.out.frame = EmptyDict

\* C25: for a Variant B buffer that ends inside a parameter pair,
\* decode_rpc_frame returns OK with the fixed fields as sent and with the
\* complete pairs that precede the partial pair, one parameter per pair in
\* wire order; the partial pair adds none.
C25_PartialPairIsDiscarded ==
    (result.which = "tc" /\ CutInParamsB)
    => LET k == WholePairs(frame.fields, frame.cut)
           out == result.out
       IN  /\ out.status = StatusOK
           /\ out.frame.message_id = frame.fields.message_id
           /\ out.frame.protocol_version = frame.fields.protocol_version
           /\ out.frame.service = Utf8DecodeIgnore(frame.fields.service)
           /\ out.frame.method = Utf8DecodeIgnore(frame.fields.method)
           /\ out.frame.message_type = frame.fields.message_type
           /\ Len(out.frame.params) = k
           /\ \A i \in 1 .. k :
                 /\ out.frame.params[i].name
                        = Utf8DecodeIgnore(frame.fields.params[i].name)
                 /\ out.frame.params[i].value
                        = Utf8DecodeIgnore(frame.fields.params[i].value)

-----------------------------------------------------------------------------
(* Round trip and field values of the Variant B decoder, under SpecDecB *)

\* the frame rebuilt from the fields decode_rpc_frame returned: every
\* name/value pair of params in order
ReEncodeB(fr) ==
    EncodeB([message_id |-> fr.message_id,
             protocol_version |-> fr.protocol_version,
             service |-> Utf8Encode(fr.service),
             method |-> Utf8Encode(fr.method),
             message_type |-> fr.message_type,
             params |-> [i \in 1 .. Len(fr.params) |->
                            [name |-> Utf8Encode(fr.params[i].name),
                             value |-> Utf8Encode(fr.params[i].value)]]])

\* the buffer is the whole frame the sender encoded
WholeB == frame.cut = Len(EncodeB(frame.fields))

\* C11: for every whole Variant B buffer, decode_rpc_frame returns OK and the
\* returned fields, with every name/value pair in order, re-encode to exactly
\* the buffer.
C11_RoundTripB ==
    (result.which = "tc" /\ WholeB)
    => /\ result.out.status = StatusOK
       /\ ReEncodeB(result.out.frame) = data

\* C12: for every whole Variant B buffer, the decoded parameters are the
\* pairs of the frame in wire order, one entry per pair, pairs with equal
\* names included.
C12_ParamsKeepEveryPair ==
    (result.which = "tc" /\ WholeB)
    => /\ result.out.status = StatusOK
       /\ Len(result.out.frame.params) = Len(frame.fields.params)
       /\ \A i \in 1 .. Len(frame.fields.params) :
             /\ result.out.frame.params[i].name
                    = Utf8DecodeIgnore(frame.fields.params[i].name)
             /\ result.out.frame.params[i].value
                    = Utf8DecodeIgnore(frame.fields.params[i].value)

-----------------------------------------------------------------------------
(* Field values of the Variant A decoders, under SpecDecA *)

\* the text a sender encoded into the bytes b
TextOf(b) == CHOOSE t \in SeqsUpTo(TextChars, Len(b)) : Utf8Encode(t) = b

\* the buffer is the whole frame, built from a service and a method text
WholeTextA ==
    /\ frame.cut = Len(WireA(frame.fields))
    /\ IsText(frame.fields.service)
    /\ IsText(frame.fields.method)

\* C13: for every whole Variant A buffer built from a service, a method, a
\* header and a payload, each of the two decode_arpc_frame functions returns
\* OK with that service and method, the header bytes (in hexadecimal; none
\* when header_len is 0) and, as payload, all bytes after the header.
C13_DecodesTheFourFields ==
    (result.which # "none" /\ WholeTextA)
    => /\ result.out.status = StatusOK
       /\ result.out.frame.service = TextOf(frame.fields.service)
       /\ result.out.frame.method = TextOf(frame.fields.method)
       /\ result.out.frame.headers = Hex(frame.fields.header)
       /\ result.out.frame.payload = Hex(frame.fields.payload)

\* C13 witness: the frame of service "a", method "b", no header and a two
\* byte payload has been decoded to OK with an empty header.
C13_Witness ==
    /\ result.which # "none"
    /\ frame.cut = Len(WireA(frame.fields))
    /\ frame.fields.service = <<97>>
    /\ frame.fields.method = <<98>>
    /\ frame.fields.header = << >>
    /\ Len(frame.fields.payload) = 2
    /\ result.out.status = StatusOK
    /\ result.out.frame.headers = << >>

-----------------------------------------------------------------------------
(* SpecConsume: the consumer side of the three scripts.  Records arrive in  *)
(* the event channel; perf_buffer_poll hands each to the script's callback. *)

\* a C array of n bytes holding the given bytes, zero filled
ArrayOf(bytes, n) == [i \in 1 .. n |-> IF i <= Len(bytes) THEN bytes[i] ELSE 0]

\* reading a ctypes c_char array field of a Structure gives the bytes before
\* the first NUL
CharArrayValue(arr) ==
    LET nul == {i \in 1 .. Len(arr) : arr[i] = 0}
    IN  IF nul = {} THEN arr
        ELSE SubSeq(arr, 1, (CHOOSE i \in nul : \A j \in nul : i <= j) - 1)

\* bytes.decode() with the default strict error handling succeeds
DecodesStrict(b) == Utf8Encode(Utf8DecodeIgnore(b)) = b

\* struct data_t as intercept_sendmsg.py's kernel program fills it
SmRecord(task, payload) ==
    [pid |-> 77, dst_port |-> UDP_PORT, src_port |-> 5000,
     data_len |-> Len(payload),
     task |-> ArrayOf(task, TASK_COMM_LEN),
     data |-> ArrayOf(payload, MAX_DATA_LEN)]

\* struct data_t as intercept_tc.py's kernel program fills it
ItRecord(payload) ==
    [dst_port |-> UDP_PORT, src_port |-> 5000,
     data_len |-> Len(payload),
     data |-> ArrayOf(payload, MAX_DATA_LEN)]

\* the record tc/tc.py declares as class Data
TcbRecord(payload) ==
    [saddr |-> 1, daddr |-> 2, sport |-> 5000, dport |-> UDP_PORT,
     protocol |-> IPPROTO_UDP,
     payload |-> ArrayOf(payload, TC_PAYLOAD_LEN),
     payload_len |-> Len(payload)]

\* payloads on the wire: a whole Variant A frame, a frame cut after its
\* first length prefix, bytes that are no frame, and an empty datagram
PayloadsA ==
    { EncodeA(<<97>>, <<98>>, << >>, <<7>>), <<1, 0>>, <<5, 5, 5>>, << >> }

\* a whole Variant B frame with one pair, the same frame cut inside
\* protocol_version, and an empty datagram
WholeFrameB ==
    EncodeB([message_id |-> [lo |-> 42, hi |-> 0], protocol_version |-> 1,
             service |-> <<115>>, method |-> <<71>>, message_type |-> 0,
             params |-> <<[name |-> <<107>>, value |-> <<118>>]>>])

PayloadsB == { WholeFrameB, SubSeq(WholeFrameB, 1, 10), << >> }

\* process names: "py", and a name that is not UTF-8
Tasks == { <<112, 121>>, <<255>> }

RecordsOf(p) ==
    CASE p = "intercept_sendmsg" -> {SmRecord(t, b) : t \in Tasks, b \in PayloadsA}
      [] p = "intercept_tc" -> {ItRecord(b) : b \in PayloadsA}
      [] p = "tc" -> {TcbRecord(b) : b \in PayloadsB}

\* what a callback printed for one record
\*   raised   the exception that ended the callback, "none" if it returned
\*   meta     the line with the flow metadata was printed
\*   called   the decoder was called, on payload
\*   dumped   a hex dump was printed, of hex
\*   shown    what was printed about the decoding
NothingShown == [kind |-> "none"]
ShownFailure(status) == [kind |-> "failure", status |-> status]
ShownFields(fields) == [kind |-> "fields", fields |-> fields]

Report(rec, raised, meta, called, payload, dumped, hex, shown) ==
    [rec |-> rec, raised |-> raised, meta |-> meta, called |-> called,
     payload |-> payload, dumped |-> dumped, hex |-> hex, shown |-> shown]

\* ---- intercept_sendmsg.py: print_event

\* line 137: payload = bytes(event.data[:event.data_len])
SmPayload(event) == Slice(CharArrayValue(event.data), 0, event.data_len)

\* lines 136-153; the f-string of line 138 is evaluated before anything is
\* printed, and event.task.decode() raises on a name that is not UTF-8
print_event_sendmsg(event) ==
    LET payload == SmPayload(event)
        out == decode_arpc_frame(payload)
    IN  IF ~DecodesStrict(CharArrayValue(event.task))
        THEN Report(event, "UnicodeDecodeError", FALSE, FALSE, << >>, FALSE, << >>,
                    NothingShown)
        ELSE Report(event, "none", TRUE, TRUE, payload, TRUE, Hex(payload),
                    IF out.status # StatusOK
                    THEN ShownFailure(out.status)
                    ELSE ShownFields([service |-> out.frame.service,
                                      method |-> out.frame.method,
                                      headers |-> out.frame.headers,
                                      payload |-> Slice(out.frame.payload, 0, 32)]))

\* ---- intercept_tc.py: print_event

\* the fields class Data declares, lines 90-96
ItDataFields == {"dst_port", "src_port", "data_len", "data"}

\* the fields print_event reads before its first print, lines 129-131
ItFieldsRead == {"data", "data_len", "task", "pid", "src_port", "dst_port"}

\* lines 128-145: reading an attribute the Structure does not have raises
\* AttributeError while the f-string of line 130 is built
print_event_tc(event) ==
    LET payload == Slice(CharArrayValue(event.data), 0, event.data_len)
        out == decode_arpc_frame_tc(payload)
    IN  IF ~(ItFieldsRead \subseteq ItDataFields)
        THEN Report(event, "AttributeError", FALSE, FALSE, << >>, FALSE, << >>,
                    NothingShown)
        ELSE Report(event, "none", TRUE, TRUE, payload, TRUE, Hex(payload),
                    IF out.status # StatusOK
                    THEN ShownFailure(out.status)
                    ELSE ShownFields([service |-> out.frame.service,
                                      method |-> out.frame.method,
                                      headers |-> out.frame.headers,
                                      payload |-> Slice(out.frame.payload, 0, 32)]))

\* ---- tc/tc.py: EventHandler.process_event

\* line 124: payload = bytes(event.payload[:event.payload_len])
TcbPayload(event) == Slice(event.payload, 0, event.payload_len)

\* the dump of the whole array instead of the bytes decoded
TcRawPayloadDump_WholeArray(event, payload) == Hex(event.payload)

\* line 137: payload.hex()
TcRawPayloadDump(event, payload) == Hex(payload)

\* lines 112-141: the metadata line is printed for every record; the payload
\* is decoded only when payload_len > 0
EventHandler_process_event(event) ==
    LET payload == TcbPayload(event)
        out == decode_rpc_frame(payload)
    IN  IF ~(event.payload_len > 0)
        THEN Report(event, "none", TRUE, FALSE, << >>, FALSE, << >>, NothingShown)
        ELSE IF out.status = StatusOK
        THEN Report(event, "none", TRUE, TRUE, payload, FALSE, << >>,
                    ShownFields([message_id |-> out.frame.message_id,
                                 service |-> out.frame.service,
                                 method |-> out.frame.method,
                                 message_type |-> out.frame.message_type,
                                 params |-> out.frame.params]))
        ELSE Report(event, "none", TRUE, TRUE, payload, TRUE,
                    TcRawPayloadDump(event, payload), ShownFailure(out.status))

\* ---- the poll loop

\* an exception that leaves a callback is written to stderr by ctypes and
\* dropped there, were it to reach the loop it would end it
AfterCallback_Propagates(raised) == IF raised = "none" THEN "poll" ELSE "exit"

\* the callback registered with open_perf_buffer runs as a ctypes callback
\* inside perf_buffer_poll: whatever it raises, the poll call returns
AfterCallback(raised) == "poll"

Handler(p, event) ==
    CASE p = "intercept_sendmsg" -> print_event_sendmsg(event)
      [] p = "intercept_tc" -> print_event_tc(event)
      [] p = "tc" -> EventHandler_process_event(event)

\* the kernel program submits a record
Arrive(rec) ==
    /\ pc = "poll"
    /\ Len(events) + Len(stdout) < MaxRecords
    /\ events' = Append(events, rec)
    /\ UNCHANGED <<hook, cpu, packet_count, elem, sent, overlapped>>
    /\ UNCHANGED <<lifeVars, decVars, injVars>>

\* perf_buffer_poll takes the oldest record and runs the callback on it
Callback(p) ==
    /\ prog = p /\ pc = "poll"
    /\ events # << >>
    /\ LET report == Handler(p, Head(events))
       IN  /\ stdout' = Append(stdout, report)
           /\ pc' = AfterCallback(report.raised)
    /\ events' = Tail(events)
    /\ UNCHANGED <<hook, cpu, packet_count, elem, sent, overlapped>>
    /\ UNCHANGED <<prog, idx, hooks, oplog, polls, exc>>
    /\ UNCHANGED <<frame, data, result, injVars>>

Sm_print_event == Callback("intercept_sendmsg")
It_print_event == Callback("intercept_tc")
Tc_process_event == Callback("tc")

\* KeyboardInterrupt raised by perf_buffer_poll ends the loop
Consume_KeyboardInterrupt ==
    /\ pc = "poll"
    /\ pc' = "exit"
    /\ UNCHANGED <<prog, idx, hooks, oplog, polls, exc>>
    /\ UNCHANGED <<capVars, decVars, injVars>>

InitConsume ==
    /\ prog \in {"tc", "intercept_tc", "intercept_sendmsg"}
    /\ pc = "poll"
    /\ idx = 0 /\ hooks = {} /\ oplog = << >> /\ polls = 0 /\ exc = "none"
    /\ IdleCapture
    /\ IdleDec
    /\ IdleInject

NextConsume ==
    \/ \E rec \in RecordsOf(prog) : Arrive(rec)
    \/ Sm_print_event
    \/ It_print_event
    \/ Tc_process_event
    \/ Consume_KeyboardInterrupt

SpecConsume == InitConsume /\ [][NextConsume]_vars

-----------------------------------------------------------------------------
(* Claims about the consumer loop, checked under SpecConsume *)

\* the bytes payload_prefix[:payload_len] of a record
PrefixOf(rec) ==
    IF "data" \in DOMAIN rec
    THEN SubSeq(rec.data, 1, Min(rec.data_len, MAX_DATA_LEN))
    ELSE SubSeq(rec.payload, 1, Min(rec.payload_len, TC_PAYLOAD_LEN))

\* the record carries no process name, or one that is text
NameIsText(rec) ==
    "task" \in DOMAIN rec => DecodesStrict(CharArrayValue(rec.task))

\* the step hands a record to the callback
CallbackStep == Len(stdout') = Len(stdout) + 1

\* C17: no record ends the consumer loop, whatever its payload, and every
\* record consumed, those after a record that failed to decode included, is
\* reported.
C17_PerEventFailuresAreLocal ==
    [][CallbackStep =>
         /\ pc' = "poll"
         /\ NameIsText(stdout'[Len(stdout')].rec) => stdout'[Len(stdout')].meta]_vars

\* C18: for every record consumed the callback returns without raising,
\* has printed the flow metadata, has handed payload_prefix[:payload_len] to
\* the decoder and has printed the decoded fields or the failure message; a
\* record of payload_len 0 is no exception.
C18_EveryRecordIsDecodedAndReported ==
    \A i \in 1 .. Len(stdout) :
        NameIsText(stdout[i].rec)
        => /\ stdout[i].raised = "none"
           /\ stdout[i].meta
           /\ stdout[i].called
           /\ stdout[i].payload = PrefixOf(stdout[i].rec)
           /\ stdout[i].shown.kind # "none"

\* C19: whenever the decoder was called on a record's payload and failed,
\* the callback has printed the failure message and a hex dump of exactly
\* the bytes it handed to the decoder.
C19_FailureComesWithHexDump ==
    \A i \in 1 .. Len(stdout) :
        (stdout[i].called /\ stdout[i].shown.kind # "fields")
        => /\ stdout[i].shown.kind = "failure"
           /\ stdout[i].shown.status.kind # "OK"
           /\ stdout[i].dumped
           /\ stdout[i].hex = Hex(stdout[i].payload)

\* C19 witness: tc.py has consumed a record whose ten byte payload ends
\* inside protocol_version and has printed the failure with the dump of
\* those ten bytes.
C19_Witness ==
    \E i \in 1 .. Len(stdout) :
        /\ prog = "tc"
        /\ stdout[i].rec.payload_len = 10
        /\ stdout[i].shown = ShownFailure(TooShortAt("protocol_version", 8))
        /\ stdout[i].dumped
        /\ Len(stdout[i].hex) = 20

\* the length field of a record and the capacity of its payload array
LenField(rec) == IF "data" \in DOMAIN rec THEN rec.data_len ELSE rec.payload_len
Capacity(rec) == IF "data" \in DOMAIN rec THEN Len(rec.data) ELSE Len(rec.payload)

\* C22: every record consumed has a length field within the capacity of its
\* payload array, and the byte string the callback hands to the decoder has
\* exactly min(payload_len, CAP) bytes.
C22_HandedLengthIsClampedLength ==
    \A i \in 1 .. Len(stdout) :
        /\ LenField(stdout[i].rec) <= Capacity(stdout[i].rec)
        /\ stdout[i].called =>
               Len(stdout[i].payload)
                   = Min(LenField(stdout[i].rec), Capacity(stdout[i].rec))

-----------------------------------------------------------------------------
(* SpecDec: each of the three decoders applied to any buffer: a cut         *)
(* Variant A frame, a cut Variant B frame, or bytes that are no frame.      *)

\* the byte values of a buffer that is no frame: as length prefixes they
\* declare 0, 1, 97, 256, 257, ... bytes
RawBytes == {0, 1, 97}

MaxRaw == 5

InitRaw ==
    /\ frame = [variant |-> "raw"]
    /\ data \in SeqsUpTo(RawBytes, MaxRaw)
    /\ result = NoResult
    /\ stdout = << >>
    /\ IdleCapture
    /\ IdleLife
    /\ IdleInject

InitDec == InitDecA \/ InitDecB \/ InitRaw

\* decode_arpc_frame(data) of intercept_sendmsg.py
Call_decode_arpc_frame ==
    /\ result.which = "none"
    /\ result' = [which |-> "intercept_sendmsg", out |-> decode_arpc_frame(data)]
    /\ UNCHANGED <<frame, data, stdout, injVars>>
    /\ UNCHANGED <<capVars, lifeVars>>

\* decode_arpc_frame(data) of intercept_tc.py
Call_decode_arpc_frame_tc ==
    /\ result.which = "none"
    /\ result' = [which |-> "intercept_tc", out |-> decode_arpc_frame_tc(data)]
    /\ UNCHANGED <<frame, data, stdout, injVars>>
    /\ UNCHANGED <<capVars, lifeVars>>

\* decode_rpc_frame(data) of tc/tc.py
Call_decode_rpc_frame ==
    /\ result.which = "none"
    /\ result' = [which |-> "tc", out |-> decode_rpc_frame(data)]
    /\ UNCHANGED <<frame, data, stdout, injVars>>
    /\ UNCHANGED <<capVars, lifeVars>>

NextDec ==
    \/ Call_decode_arpc_frame
    \/ Call_decode_arpc_frame_tc
    \/ Call_decode_rpc_frame

SpecDec == InitDec /\ [][NextDec]_vars

\* the fields of an OK result of a Variant A decoder are made of bytes of
\* the buffer: service ends at a, method at b, headers at c, and the payload
\* is the rest, with every position inside the buffer
WithinA(f, d) ==
    \E a \in 2 .. Len(d) : \E b \in a + 2 .. Len(d) : \E c \in b + 2 .. Len(d) :
        /\ f.service = Utf8DecodeIgnore(SubSeq(d, 3, a))
        /\ f.method = Utf8DecodeIgnore(SubSeq(d, a + 3, b))
        /\ f.headers = Hex(SubSeq(d, b + 3, c))
        /\ f.payload = Hex(SubSeq(d, c + 1, Len(d)))

\* the same for decode_rpc_frame: the fixed fields take twenty bytes and the
\* two names, every parameter kept takes at least four more
WithinB(f, d) ==
    /\ Len(d) >= 20 + 4 * Len(f.params)
    /\ f.message_id = UnpackQ(SubSeq(d, 1, 8))
    /\ f.protocol_version = UnpackI(SubSeq(d, 9, 12))
    /\ \E a \in 14 .. Len(d) : \E b \in a + 2 .. Len(d) - 4 :
           /\ f.service = Utf8DecodeIgnore(SubSeq(d, 15, a))
           /\ f.method = Utf8DecodeIgnore(SubSeq(d, a + 3, b))
           /\ f.message_type = UnpackI(SubSeq(d, b + 1, b + 4))

\* C20: the three frame decoders are total. Whatever the buffer (empty, cut
\* at any position, declaring any lengths), a decoder returns a status that
\* is "OK", "Too short for ..." or "Error: ...", so nothing is raised to the
\* caller; with a failure it returns the empty dict, and with "OK" fields
\* made only of bytes at positions below the length of the buffer.
C20_DecodersAreTotal ==
    result.which # "none" =>
        /\ result.out.status.kind \in {"OK", "Too short", "Error"}
        /\ result.out.status.kind # "OK" => result.out.frame = EmptyDict
        /\ result.out.status.kind = "OK" =>
               IF result.which = "tc"
               THEN WithinB(result.out.frame, data)
               ELSE WithinA(result.out.frame, data)

\* C20 witness: the decoder of intercept_tc.py, which checks no length after
\* the first, was given three bytes that declare a service longer than the
\* buffer, and returned an "Error: ..." status.
C20_Witness ==
    /\ result.which = "intercept_tc"
    /\ frame.variant = "raw"
    /\ Len(data) = 3
    /\ UnpackH(SubSeq(data, 1, 2)) > Len(data)
    /\ result.out.status.kind = "Error"
    /\ result.out.frame = EmptyDict

-----------------------------------------------------------------------------
(* The decoders step by step: the slices data[offset:offset+n] the two      *)
(* bounds-checked decoders take, in the order they take them.               *)

\* the length check of the decoder named which
Short(which, d, offset, n) ==
    CASE which = "arpc"  -> TooShort(d, offset, n)
      [] which = "field" -> FieldShort(d, offset, n)
      [] which = "param" -> ParamShort(d, offset, n)

ASlice(offset, n) == [offset |-> offset, n |-> n]

\* offset += 2 after a length prefix, left out
AfterPrefix_Stays(offset) == offset

\* offset += 2 after a length prefix
AfterPrefix(offset) == offset + 2

\* k fields, each behind its u16 length: check, slice the length, advance,
\* check, slice the field, advance; a failed check ends the reading
RECURSIVE PrefixedFields(_, _, _, _)
PrefixedFields(which, d, offset, k) ==
    IF k = 0 THEN [ok |-> TRUE, offset |-> offset, slices |-> << >>] ELSE
    IF Short(which, d, offset, 2)
    THEN [ok |-> FALSE, offset |-> offset, slices |-> << >>] ELSE
    LET n == UnpackH(Slice(d, offset, 2))
        o1 == AfterPrefix(offset) IN
    IF Short(which, d, o1, n)
    THEN [ok |-> FALSE, offset |-> o1, slices |-> <<ASlice(offset, 2)>>] ELSE
    LET rest == PrefixedFields(which, d, o1 + n, k - 1)
    IN  [ok |-> rest.ok, offset |-> rest.offset,
         slices |-> <<ASlice(offset, 2), ASlice(o1, n)>> \o rest.slices]

\* intercept_sendmsg.py lines 92-129: service, method and headers behind
\* their lengths, then data[offset:]
Slices_decode_arpc_frame(d) ==
    LET r == PrefixedFields("arpc", d, 0, 3)
    IN  IF r.ok THEN Append(r.slices, ASlice(r.offset, Len(d) - r.offset))
        ELSE r.slices

\* tc.py lines 76-97: the turns of the while loop from offset on.  A turn
\* reads a name and a value behind their lengths and ends with break when a
\* check fails.  The list stops after fuel turns.
RECURSIVE ParamLoopTurns(_, _, _)
ParamLoopTurns(d, offset, fuel) ==
    IF ~(offset < Len(d)) \/ fuel = 0 THEN << >> ELSE
    LET r == PrefixedFields("param", d, offset, 2)
        turn == [start |-> offset, end |-> r.offset, broke |-> ~r.ok,
                 slices |-> r.slices]
    IN  IF r.ok THEN <<turn>> \o ParamLoopTurns(d, r.offset, fuel - 1)
        ELSE <<turn>>

\* tc.py lines 32-72: the fields before the parameters
FixedSlices_decode_rpc_frame(d) ==
    IF FieldShort(d, 0, 8) THEN [ok |-> FALSE, offset |-> 0, slices |-> << >>] ELSE
    IF FieldShort(d, 8, 4)
    THEN [ok |-> FALSE, offset |-> 8, slices |-> <<ASlice(0, 8)>>] ELSE
    LET r == PrefixedFields("field", d, 12, 2)
        head == <<ASlice(0, 8), ASlice(8, 4)>> \o r.slices IN
    IF ~r.ok \/ FieldShort(d, r.offset, 4)
    THEN [ok |-> FALSE, offset |-> r.offset, slices |-> head]
    ELSE [ok |-> TRUE, offset |-> r.offset + 4,
          slices |-> Append(head, ASlice(r.offset, 4))]

\* the turns of the parameter loop of decode_rpc_frame(d); none when a fixed
\* field is short.  No loop that ends needs more than len(data) + 1 turns.
Turns_decode_rpc_frame(d) ==
    LET fixed == FixedSlices_decode_rpc_frame(d)
    IN  IF fixed.ok THEN ParamLoopTurns(d, fixed.offset, Len(d) + 1) ELSE << >>

RECURSIVE TurnSlices(_)
TurnSlices(turns) ==
    IF turns = << >> THEN << >> ELSE Head(turns).slices \o TurnSlices(Tail(turns))

Slices_decode_rpc_frame(d) ==
    FixedSlices_decode_rpc_frame(d).slices \o TurnSlices(Turns_decode_rpc_frame(d))

RECURSIVE SumOfLengths(_)
SumOfLengths(slices) ==
    IF slices = << >> THEN 0 ELSE Head(slices).n + SumOfLengths(Tail(slices))

\* every slice lies inside a buffer of len bytes and starts where the one
\* before it ended
SlicesInBounds(slices, len) ==
    /\ \A i \in 1 .. Len(slices) :
          /\ slices[i].offset >= 0 /\ slices[i].n >= 0
          /\ slices[i].offset + slices[i].n <= len
    /\ \A i \in 1 .. Len(slices) - 1 :
          /\ slices[i + 1].offset >= slices[i].offset
          /\ slices[i + 1].offset = slices[i].offset + slices[i].n

\* C28: in decode_arpc_frame of intercept_sendmsg.py and decode_rpc_frame of
\* tc.py the offset never goes back, and every slice taken ends at or before
\* len(data); decode_arpc_frame returns OK exactly when it has taken all of
\* its seven slices, and then their lengths, the payload's included, add up
\* to len(data).
C28_OffsetsStayInBounds ==
    /\ result.which = "intercept_sendmsg" =>
          LET slices == Slices_decode_arpc_frame(data) IN
          /\ SlicesInBounds(slices, Len(data))
          /\ result.out.status = StatusOK <=> Len(slices) = 7
          /\ result.out.status = StatusOK =>
                /\ SumOfLengths(slices) = Len(data)
                /\ result.out.frame.payload
                       = Hex(Slice(data, slices[7].offset, slices[7].n))
    /\ result.which = "tc" =>
          LET slices == Slices_decode_rpc_frame(data) IN
          /\ SlicesInBounds(slices, Len(data))
          /\ result.out.status = StatusOK <=> FixedSlices_decode_rpc_frame(data).ok

\* C28 witness: decode_arpc_frame has decoded a whole frame with a service,
\* a method, headers and a payload, taking seven slices.
C28_Witness ==
    /\ result.which = "intercept_sendmsg"
    /\ frame.variant = "A" /\ frame.cut = Len(WireA(frame.fields))
    /\ Len(data) >= 10
    /\ result.out.status = StatusOK
    /\ \A i \in {2, 4, 6, 7} : Slices_decode_arpc_frame(data)[i].n > 0

\* C29: the parameter loop of decode_rpc_frame ends on every buffer: each
\* turn either leaves the loop with break or moves the offset forward by at
\* least 4, pairs with empty name and empty value included, so there are at
\* most len(data) / 4 turns; the turns that did not break are the pairs the
\* buffer holds whole.
C29_ParamLoopTerminates ==
    result.which = "tc" =>
        LET turns == Turns_decode_rpc_frame(data) IN
        /\ \A i \in 1 .. Len(turns) :
              /\ turns[i].broke \/ turns[i].end >= turns[i].start + 4
              /\ turns[i].broke => i = Len(turns)
        /\ 4 * Len(turns) <= Len(data)
        /\ (frame.variant = "B" /\ ~CutInFixedB) =>
              Cardinality({i \in 1 .. Len(turns) : ~turns[i].broke})
                  = WholePairs(frame.fields, frame.cut)

\* C29 witness: a buffer holding three pairs with empty name and empty
\* value took three turns of four bytes each.
C29_Witness ==
    /\ result.which = "tc"
    /\ frame.variant = "B"
    /\ Len(Turns_decode_rpc_frame(data)) = 3
    /\ \A i \in 1 .. 3 :
          LET turn == Turns_decode_rpc_frame(data)[i]
          IN  ~turn.broke /\ turn.end = turn.start + 4
    /\ result.out.status = StatusOK

-----------------------------------------------------------------------------
(* SpecInject: cmd/proxy/injector/symphony-injector.py.  main loads the     *)
(* YAML documents, process_yaml walks them and changes them in place, and   *)
(* main dumps the list.  A string is the sequence of its code points.       *)

MaxDocs == 2

\* "false", "False", "FALSE", "true", "no"
STR_false == <<102, 97, 108, 115, 101>>
STR_False == <<70, 97, 108, 115, 101>>
STR_FALSE == <<70, 65, 76, 83, 69>>
STR_true == <<116, 114, 117, 101>>
STR_no == <<110, 111>>

\* str.lower() on ASCII text
Lower(str) ==
    [i \in 1 .. Len(str) |-> IF str[i] >= 65 /\ str[i] <= 90 THEN str[i] + 32 ELSE str[i]]

\* the value under INJECTION_LABEL in metadata.labels: no such key, a string,
\* or the boolean false that YAML reads from an unquoted false
NoLabel == [type |-> "absent", v |-> << >>]
StrLabel(str) == [type |-> "str", v |-> str]
BoolFalseLabel == [type |-> "bool", v |-> << >>]

LabelValues ==
    {NoLabel, BoolFalseLabel} \cup
    {StrLabel(str) : str \in {STR_false, STR_False, STR_FALSE, STR_true, STR_no}}

\* a list under a key of the pod spec, or no such key; a container is kept
\* as its name
NoList == [present |-> FALSE, items |-> << >>]
ListOf(items) == [present |-> TRUE, items |-> items]

\* a document: a mapping with a kind, metadata that may hold a labels
\* mapping, and spec.template.spec that may hold the two container lists
DocOf(kind, has_labels, label, containers, initContainers) ==
    [null |-> FALSE, kind |-> kind, has_labels |-> has_labels, label |-> label,
     containers |-> containers, initContainers |-> initContainers]

\* the empty document between two "---" lines: yaml.safe_load_all yields None
NullDoc ==
    [null |-> TRUE, kind |-> "", has_labels |-> FALSE, label |-> NoLabel,
     containers |-> NoList, initContainers |-> NoList]

Deployments ==
    {DocOf("Deployment", TRUE, l, c, i) :
        l \in LabelValues,
        c \in {NoList, ListOf(<<"app">>)},
        i \in {NoList, ListOf(<<"init">>)}}
    \cup {DocOf("Deployment", FALSE, NoLabel, ListOf(<<"app">>), NoList)}

OtherDocs ==
    {DocOf("Service", FALSE, NoLabel, NoList, NoList),
     DocOf("StatefulSet", TRUE, StrLabel(STR_true), ListOf(<<"app">>), NoList)}

Docs == Deployments \cup OtherDocs \cup {NullDoc}

\* lines 13-14: labels.get(INJECTION_LABEL, "true")
LabelGet(doc) ==
    IF doc.has_labels /\ doc.label.type # "absent" THEN doc.label ELSE StrLabel(STR_true)

\* line 14: .lower() exists on a str only
should_inject_raises(doc) == LabelGet(doc).type # "str"

\* lines 8-14
should_inject(doc) == Lower(LabelGet(doc).v) # STR_false

\* lines 16-44: setdefault("initContainers", []).append(...), then
\* containers.append(...)
inject_proxy(doc) ==
    IF ~doc.containers.present THEN doc
    ELSE [doc EXCEPT
            !.initContainers = ListOf(Append(doc.initContainers.items, "set-iptables")),
            !.containers = ListOf(Append(doc.containers.items, "symphony-proxy"))]

\* lines 50-59: one turn of the for loop; doc.get on None raises
process_yaml_doc ==
    /\ prog = "symphony-injector" /\ pc = "process_yaml"
    /\ next_doc >= 1 /\ next_doc <= Len(documents)
    /\ LET doc == documents[next_doc] IN
       IF doc.null \/ (doc.kind = "Deployment" /\ should_inject_raises(doc))
       THEN /\ pc' = "exit" /\ exc' = "AttributeError"
            /\ UNCHANGED <<documents, next_doc>>
       ELSE /\ documents' =
                  IF doc.kind = "Deployment" /\ should_inject(doc)
                  THEN [documents EXCEPT ![next_doc] = inject_proxy(doc)]
                  ELSE documents
            /\ next_doc' = next_doc + 1
            /\ UNCHANGED <<pc, exc>>
    /\ UNCHANGED <<prog, idx, hooks, oplog, polls, loaded>>
    /\ UNCHANGED <<capVars, frame, data, result, stdout>>

\* line 61
process_yaml_return ==
    /\ prog = "symphony-injector" /\ pc = "process_yaml"
    /\ next_doc > Len(documents)
    /\ pc' = "dump"
    /\ UNCHANGED <<prog, idx, hooks, oplog, polls, exc>>
    /\ UNCHANGED <<capVars, decVars, injVars>>

\* line 72: yaml.dump_all(modified_documents, sys.stdout)
Inj_dump ==
    /\ prog = "symphony-injector" /\ pc = "dump"
    /\ stdout' = documents
    /\ pc' = "exit"
    /\ UNCHANGED <<prog, idx, hooks, oplog, polls, exc>>
    /\ UNCHANGED <<capVars, frame, data, result, injVars>>

\* lines 68-71: the documents are loaded and process_yaml is called
InitInject ==
    /\ prog = "symphony-injector" /\ pc = "process_yaml"
    /\ idx = 0 /\ hooks = {} /\ oplog = << >> /\ polls = 0 /\ exc = "none"
    /\ loaded \in SeqsUpTo(Docs, MaxDocs)
    /\ documents = loaded
    /\ next_doc = 1
    /\ IdleCapture
    /\ IdleDec

NextInject == process_yaml_doc \/ process_yaml_return \/ Inj_dump

SpecInject == InitInject /\ [][NextInject]_vars

\* the document is a Deployment whose label is not the text "false" in any
\* spelling of upper and lower case
ToBeInjected(doc) ==
    /\ ~doc.null
    /\ doc.kind = "Deployment"
    /\ ~(doc.has_labels /\ doc.label \in {StrLabel(STR_false), StrLabel(STR_False),
                                          StrLabel(STR_FALSE)})

\* the document with one symphony-proxy container and one set-iptables init
\* container added at the end of its lists
WithSidecar(doc) ==
    [doc EXCEPT !.containers = ListOf(doc.containers.items \o <<"symphony-proxy">>),
                !.initContainers = ListOf(doc.initContainers.items \o <<"set-iptables">>)]

Injected(doc) ==
    IF ToBeInjected(doc) /\ doc.containers.present THEN WithSidecar(doc) ELSE doc

\* C24: the injector ends by writing the documents it loaded, each
\* Deployment that has a containers list and is not labelled "false" (in any
\* case) with exactly one symphony-proxy container and one set-iptables init
\* container added, and every other document as it was.
C24_InjectsUnlessLabelledFalse ==
    pc = "exit" =>
        /\ exc = "none"
        /\ Len(stdout) = Len(loaded)
        /\ \A i \in 1 .. Len(loaded) : stdout[i] = Injected(loaded[i])

=============================================================================
